---- MODULE Spec2Model ----
(***************************************************************************)
(* slashmail: the IMAP query-and-batch-mutation engine.                    *)
(*                                                                         *)
(* The model follows one run of the binary: main connects, dispatches one  *)
(* command (search, move, delete), and logs out.  Every IMAP command the   *)
(* client sends is one step; the server answers it or rejects it.          *)
(*                                                                         *)
(* Text is modelled as a sequence of one-character strings, so that        *)
(* to_lowercase, contains, the control-character filter and the quoting    *)
(* are computed, not assumed.                                              *)
(***************************************************************************)
EXTENDS Integers, Sequences, FiniteSets, TLC

VARIABLES
    mbox,          \* server: mailbox name -> set of messages
    uidnext,       \* server: mailbox name -> next UID it assigns
    caps,          \* server: advertised capabilities
    faults,        \* server: how its answers may be broken in this run
    results,       \* cmd_count: the (folder, count) lines
    selected,      \* server: the selected mailbox of the session, or NoFolder
    pc,            \* client: position in the running command
    cmd,           \* client: the parsed command line (Commands::*)
    log,           \* every IMAP command sent on the session, with its outcome
    warnings,      \* stderr: the eprintln! lines
    result,        \* what main returns
    query,         \* search: the compiled query
    folder_names,  \* search: the mailboxes still to visit (all_folders)
    all_messages,  \* search: rows collected so far (all_folders)
    fetch,         \* fetch_messages: its locals
    messages,      \* the rows search returned to its caller (None before it does)
    confirm,       \* search_and_move: the answer to the confirmation prompt
    by_folder,     \* search_and_move: groups not yet moved
    move           \* search_and_move / uid_move_or_fallback: the current chunk

vars == <<mbox, uidnext, caps, faults, results, selected, pc, cmd, log, warnings, result, query,
          folder_names, all_messages, fetch, messages, confirm, by_folder, move>>

(***************************************************************************)
(* Bounds of the model.                                                    *)
(***************************************************************************)
InboxSize == 3     \* INBOX holds UIDs 1..InboxSize
MaxLimit == 2      \* --limit ranges over 0..MaxLimit (or is absent)
MaxLost == 1       \* records a UID FETCH answer may lack

(***************************************************************************)
(* Text helpers.                                                           *)
(***************************************************************************)
None == <<"None">>
Some(v) == <<"Some", v>>
IsSome(o) == o[1] = "Some"
Unwrap(o) == o[2]

Min(a, b) == IF a <= b THEN a ELSE b

UpperChars == <<"A","B","C","D","E","F","G","H","I","J","K","L","M",
                "N","O","P","Q","R","S","T","U","V","W","X","Y","Z">>
LowerChars == <<"a","b","c","d","e","f","g","h","i","j","k","l","m",
                "n","o","p","q","r","s","t","u","v","w","x","y","z">>

\* char::is_control for the characters of the model: TAB, LF, CR, FF.
is_control(c) == c \in {"\t", "\n", "\r", "\f"}

LowerChar(c) ==
    IF \E i \in 1..Len(UpperChars) : UpperChars[i] = c
    THEN LowerChars[CHOOSE i \in 1..Len(UpperChars) : UpperChars[i] = c]
    ELSE c

\* str::to_lowercase
to_lowercase(s) == [i \in 1..Len(s) |-> LowerChar(s[i])]

\* str::contains
contains(s, pat) ==
    \E i \in 0..(Len(s) - Len(pat)) :
        \A j \in 1..Len(pat) : s[i + j] = pat[j]

\* s.chars().filter(|c| !c.is_control()).collect()
NotControl(c) == ~is_control(c)
sanitize(s) == SelectSeq(s, NotControl)

\* The backslash left as it is: only the double quote is escaped.
RECURSIVE Escape_QuotesOnly(_)
Escape_QuotesOnly(s) ==
    IF s = <<>> THEN <<>>
    ELSE IF Head(s) = "\"" THEN <<"\\", "\"">> \o Escape_QuotesOnly(Tail(s))
    ELSE <<Head(s)>> \o Escape_QuotesOnly(Tail(s))

RECURSIVE Escape(_)
Escape(s) ==
    IF s = <<>> THEN <<>>
    ELSE IF Head(s) = "\\" THEN <<"\\", "\\">> \o Escape(Tail(s))
    ELSE IF Head(s) = "\"" THEN <<"\\", "\"">> \o Escape(Tail(s))
    ELSE <<Head(s)>> \o Escape(Tail(s))

imap_quote(s) == <<"\"">> \o Escape(sanitize(s)) \o <<"\"">>

(***************************************************************************)
(* Numbers and words in text.                                              *)
(***************************************************************************)
DigitChars == <<"0","1","2","3","4","5","6","7","8","9">>

IsDigit(c) == \E i \in 1..10 : DigitChars[i] = c

DigitVal(c) == (CHOOSE i \in 1..10 : DigitChars[i] = c) - 1

\* format!("{n}")
RECURSIVE FormatNum(_)
FormatNum(n) ==
    IF n < 10 THEN <<DigitChars[n + 1]>>
    ELSE FormatNum(n \div 10) \o <<DigitChars[(n % 10) + 1]>>

\* u32::MAX, as its decimal digits.
U32_MAX == <<"4","2","9","4","9","6","7","2","9","5">>

RECURSIVE DigitsValue(_, _)
DigitsValue(s, acc) ==
    IF s = <<>> THEN acc ELSE DigitsValue(Tail(s), acc * 10 + DigitVal(Head(s)))

RECURSIVE StripZeros(_)
StripZeros(s) == IF s # <<>> /\ Head(s) = "0" THEN StripZeros(Tail(s)) ELSE s

\* a <= b for two digit strings of the same length.
RECURSIVE DigitsLeq(_, _)
DigitsLeq(a, b) ==
    IF a = <<>> THEN TRUE
    ELSE IF DigitVal(Head(a)) # DigitVal(Head(b)) THEN DigitVal(Head(a)) < DigitVal(Head(b))
    ELSE DigitsLeq(Tail(a), Tail(b))

\* The number overflows the integer type whose maximum has the digits max.
Overflows(body, max) ==
    LET z == StripZeros(body)
    IN Len(z) > Len(max) \/ (Len(z) = Len(max) /\ ~DigitsLeq(z, max))

\* str::parse::<u32>(): an optional '+', then decimal digits only, no overflow.
parse_u32(tok) ==
    LET body == IF tok # <<>> /\ Head(tok) = "+" THEN Tail(tok) ELSE tok
    IN IF body = <<>> \/ \E i \in 1..Len(body) : ~IsDigit(body[i]) THEN None
       ELSE IF Overflows(body, U32_MAX) THEN None
       ELSE Some(DigitsValue(body, 0))

is_whitespace(c) == c \in {" ", "\t"}

\* str::split_whitespace(): the maximal runs of non-whitespace characters.
RECURSIVE SplitFrom(_, _)
SplitFrom(s, tok) ==
    IF s = <<>> THEN (IF tok = <<>> THEN <<>> ELSE <<tok>>)
    ELSE IF is_whitespace(Head(s))
         THEN (IF tok = <<>> THEN <<>> ELSE <<tok>>) \o SplitFrom(Tail(s), <<>>)
    ELSE SplitFrom(Tail(s), Append(tok, Head(s)))

split_whitespace(s) == SplitFrom(s, <<>>)

starts_with(s, p) == Len(s) >= Len(p) /\ SubSeq(s, 1, Len(p)) = p

\* str::strip_prefix
strip_prefix(s, p) ==
    IF starts_with(s, p) THEN Some(SubSeq(s, Len(p) + 1, Len(s))) ELSE None


\* str::trim: leading and trailing whitespace removed.
RECURSIVE TrimStart(_)
TrimStart(s) == IF s # <<>> /\ is_whitespace(Head(s)) THEN TrimStart(Tail(s)) ELSE s

RECURSIVE TrimEnd(_)
TrimEnd(s) ==
    IF s # <<>> /\ is_whitespace(s[Len(s)]) THEN TrimEnd(SubSeq(s, 1, Len(s) - 1)) ELSE s

trim(s) == TrimEnd(TrimStart(s))

AllDigits(s) == \A i \in 1..Len(s) : IsDigit(s[i])

\* format!("{n}") of a signed integer.
FormatInt(n) == IF n < 0 THEN <<"-">> \o FormatNum(0 - n) ELSE FormatNum(n)

\* A Result: Ok(val) or Err(err).
ROk(v) == [ok |-> TRUE, val |-> v, err |-> "-"]
RErr(e) == [ok |-> FALSE, val |-> <<>>, err |-> e]

(***************************************************************************)
(* Dates.                                                                  *)
(***************************************************************************)
MONTH_ABBRS ==
    <<<<"J","a","n">>,
      <<"F","e","b">>,
      <<"M","a","r">>,
      <<"A","p","r">>,
      <<"M","a","y">>,
      <<"J","u","n">>,
      <<"J","u","l">>,
      <<"A","u","g">>,
      <<"S","e","p">>,
      <<"O","c","t">>,
      <<"N","o","v">>,
      <<"D","e","c">>>>

\* format_imap_date
format_imap_date(day, month, year) ==
    IF ~(month \in 1..12) \/ ~(day \in 1..31) THEN RErr("Invalid computed date")
    ELSE ROk(FormatNum(day) \o <<"-">> \o MONTH_ABBRS[month] \o <<"-">> \o FormatInt(year))

\* Rust's integer division: the quotient truncated toward zero.
TruncDiv(a, b) == IF a >= 0 THEN a \div b ELSE 0 - ((0 - a) \div b)

\* epoch_to_date: (year, month, day) of the day that holds secs.
epoch_to_date(secs) ==
    LET z == TruncDiv(secs, 86400) + 719468
        era == TruncDiv(IF z >= 0 THEN z ELSE z - 146096, 146097)
        doe == z - era * 146097
        yoe == (doe - doe \div 1460 + doe \div 36524 - doe \div 146096) \div 365
        y0 == yoe + era * 400
        doy == doe - (365 * yoe + yoe \div 4 - yoe \div 100)
        mp == (5 * doy + 2) \div 153
        d == doy - (153 * mp + 2) \div 5 + 1
        m == IF mp < 10 THEN mp + 3 ELSE mp - 9
        y == IF m <= 2 THEN y0 + 1 ELSE y0
    IN [year |-> y, month |-> m, day |-> d]

\* The century exception dropped: every fourth year is a leap year.
days_in_month_Julian(year, month) ==
    IF month \in {1, 3, 5, 7, 8, 10, 12} THEN 31
    ELSE IF month \in {4, 6, 9, 11} THEN 30
    ELSE IF month = 2 THEN (IF year % 4 = 0 THEN 29 ELSE 28)
    ELSE 30

days_in_month(year, month) ==
    IF month \in {1, 3, 5, 7, 8, 10, 12} THEN 31
    ELSE IF month \in {4, 6, 9, 11} THEN 30
    ELSE IF month = 2
         THEN (IF year % 4 = 0 /\ (year % 100 # 0 \/ year % 400 = 0) THEN 29 ELSE 28)
    ELSE 30

\* SystemTime::now(), in seconds since the epoch: 2025-11-03 00:00:00 UTC.
now_secs == 1762128000

\* ARABIC-INDIC DIGIT THREE, a decimal digit outside ASCII (one character).
ArabicThree == "U+0663"

\* The regex class \d: any Unicode decimal digit, where str::parse takes the
\* ASCII digits only.
RegexDigit(c) == IsDigit(c) \/ c = ArabicThree
AllRegexDigits(s) == \A i \in 1..Len(s) : RegexDigit(s[i])

\* The regex ^(\d+)([dwmy])$ : Some(<<digits, unit>>) or None.
RelativeCaptures(s) ==
    IF Len(s) >= 2 /\ s[Len(s)] \in {"d", "w", "m", "y"} /\ AllRegexDigits(SubSeq(s, 1, Len(s) - 1))
    THEN Some(<<SubSeq(s, 1, Len(s) - 1), s[Len(s)]>>)
    ELSE None

\* resolve_relative_date: None when the shorthand does not apply.
\* "d" | "w": the date `days` days before now.
DateOf(t) == format_imap_date(t.day, t.month, t.year)

\* "m": n months back, the day clamped to the month's length.
MonthsBack(t, n) ==
    LET total_months == (t.year * 12 + t.month - 1) - n
        y == total_months \div 12
        m == (total_months % 12) + 1
    IN format_imap_date(Min(t.day, days_in_month(y, m)), m, y)

\* "y": n years back, the day clamped to the month's length.
YearsBack(t, n) ==
    format_imap_date(Min(t.day, days_in_month(t.year - n, t.month)), t.month, t.year - n)

\* Some(match unit { .. }) once the count has parsed; clock is the value
\* SystemTime::now() gave to the local now_secs.
ResolveUnit(clock, n, unit) ==
    IF ~IsSome(n) THEN Some(RErr("ParseIntError"))
    ELSE IF unit = "d" THEN Some(DateOf(epoch_to_date(clock - Unwrap(n) * 86400)))
    ELSE IF unit = "w" THEN Some(DateOf(epoch_to_date(clock - Unwrap(n) * 7 * 86400)))
    ELSE IF unit = "m" THEN Some(MonthsBack(epoch_to_date(clock), Unwrap(n)))
    ELSE Some(YearsBack(epoch_to_date(clock), Unwrap(n)))

\* let caps = re.captures(s)?; let n: u32 = caps[1].parse(); let unit = &caps[2];
ResolveCaptures(clock, caps_) ==
    IF ~IsSome(caps_) THEN None
    ELSE ResolveUnit(clock, parse_u32(Unwrap(caps_)[1]), Unwrap(caps_)[2])

\* resolve_relative_date run at the time clock.
ResolveAt(clock, s) == ResolveCaptures(clock, RelativeCaptures(s))

resolve_relative_date(s) == ResolveAt(now_secs, s)

\* The regex ^(\d{4})-(\d{2})-(\d{2})$ : Some(<<year, month, day>>) or None.
AbsoluteCaptures(s) ==
    IF /\ Len(s) = 10
       /\ s[5] = "-" /\ s[8] = "-"
       /\ AllRegexDigits(SubSeq(s, 1, 4)) /\ AllRegexDigits(SubSeq(s, 6, 7))
       /\ AllRegexDigits(SubSeq(s, 9, 10))
    THEN Some(<<SubSeq(s, 1, 4), SubSeq(s, 6, 7), SubSeq(s, 9, 10)>>)
    ELSE None

\* parse_date
\* parse_date once resolve_relative_date has answered.
ParseAbsolute(relative, s) ==
    IF IsSome(relative) THEN Unwrap(relative)
    ELSE LET caps_ == AbsoluteCaptures(s) IN
         IF ~IsSome(caps_) THEN RErr("Invalid date (expected YYYY-MM-DD or relative)")
         ELSE IF \E k \in 1..3 : ~AllDigits(Unwrap(caps_)[k]) THEN RErr("ParseIntError")
         ELSE LET year == DigitsValue(Unwrap(caps_)[1], 0)
                  month == DigitsValue(Unwrap(caps_)[2], 0)
                  day == DigitsValue(Unwrap(caps_)[3], 0)
              IN IF format_imap_date(day, month, year).ok
                 THEN format_imap_date(day, month, year)
                 ELSE RErr("Invalid date (expected YYYY-MM-DD)")

parse_date(s) == ParseAbsolute(resolve_relative_date(s), s)

(***************************************************************************)
(* Sizes.                                                                  *)
(***************************************************************************)
\* u64::MAX, u64::MAX / 1024 and u64::MAX / 1_048_576, as decimal digits.
U64_MAX == <<"1","8","4","4","6","7","4","4","0","7","3","7","0","9","5","5","1","6","1","5">>
U64_MAX_DIV_K == <<"1","8","0","1","4","3","9","8","5","0","9","4","8","1","9","8","3">>
U64_MAX_DIV_M == <<"1","7","5","9","2","1","8","6","0","4","4","4","1","5">>

\* str::strip_suffix of one character.
strip_suffix(s, c) ==
    IF s # <<>> /\ s[Len(s)] = c THEN Some(SubSeq(s, 1, Len(s) - 1)) ELSE None

\* str::parse::<u64>(): an optional '+', then decimal digits only, no overflow;
\* Some(digits) keeps the number as its digits, without leading zeros.
parse_u64(tok) ==
    LET body == IF tok # <<>> /\ Head(tok) = "+" THEN Tail(tok) ELSE tok
    IN IF body = <<>> \/ ~AllDigits(body) THEN None
       ELSE IF Overflows(body, U64_MAX) THEN None
       ELSE Some(IF StripZeros(body) = <<>> THEN <<"0">> ELSE StripZeros(body))

\* The decimal digits of (the number with digits s[1..i]) * k + carry.
RECURSIVE MulFrom(_, _, _, _)
MulFrom(s, i, k, carry) ==
    IF i = 0 THEN (IF carry = 0 THEN <<>> ELSE FormatNum(carry))
    ELSE LET p == DigitVal(s[i]) * k + carry
         IN MulFrom(s, i - 1, k, p \div 10) \o <<DigitChars[(p % 10) + 1]>>

\* value * multiplier on decimal digits (the product need not fit a number of
\* the model).
MulDigits(s, k) ==
    LET r == StripZeros(MulFrom(s, Len(s), k, 0)) IN IF r = <<>> THEN <<"0">> ELSE r

\* a <= b for two numbers given by their digits, without leading zeros.
NumLeq(a, b) == Len(a) < Len(b) \/ (Len(a) = Len(b) /\ DigitsLeq(a, b))

\* The range checked on the value instead of the product.
parse_size_ValueChecked(input) ==
    LET s == trim(input) IN
    IF s = <<>> THEN RErr("Invalid size ''")
    ELSE LET m == IF IsSome(strip_suffix(s, "M")) THEN strip_suffix(s, "M")
                  ELSE strip_suffix(s, "m")
             k == IF IsSome(strip_suffix(s, "K")) THEN strip_suffix(s, "K")
                  ELSE strip_suffix(s, "k")
             raw == IF IsSome(m) THEN trim(Unwrap(m))
                    ELSE IF IsSome(k) THEN trim(Unwrap(k)) ELSE s
             multiplier == IF IsSome(m) THEN 1048576 ELSE IF IsSome(k) THEN 1024 ELSE 1
             value == parse_u64(raw)
         IN IF ~IsSome(value) THEN RErr("Invalid size")
            ELSE ROk(MulDigits(Unwrap(value), multiplier))

\* parse_size: Ok(bytes), the u64 as its decimal digits.
parse_size(input) ==
    LET s == trim(input) IN
    IF s = <<>> THEN RErr("Invalid size ''")
    ELSE LET m == IF IsSome(strip_suffix(s, "M")) THEN strip_suffix(s, "M")
                  ELSE strip_suffix(s, "m")
             k == IF IsSome(strip_suffix(s, "K")) THEN strip_suffix(s, "K")
                  ELSE strip_suffix(s, "k")
             raw == IF IsSome(m) THEN trim(Unwrap(m))
                    ELSE IF IsSome(k) THEN trim(Unwrap(k)) ELSE s
             multiplier == IF IsSome(m) THEN 1048576 ELSE IF IsSome(k) THEN 1024 ELSE 1
             limit == IF IsSome(m) THEN U64_MAX_DIV_M
                      ELSE IF IsSome(k) THEN U64_MAX_DIV_K ELSE U64_MAX
             value == parse_u64(raw)
         IN IF ~IsSome(value) THEN RErr("Invalid size")
            ELSE IF Overflows(Unwrap(value), limit) THEN RErr("Size is too large")
            ELSE ROk(MulDigits(Unwrap(value), multiplier))

(***************************************************************************)
(* Mailbox names.                                                          *)
(***************************************************************************)
INBOX == <<"I","N","B","O","X">>
Work == <<"W","o","r","k">>
Trash == <<"T","r","a","s","h">>
SPAM == <<"S","P","A","M">>
GmailAllMail == <<"[","G","m","a","i","l","]","/","A","l","l"," ","M","a","i","l">>
TabTrash == <<"T","r","a","\t","s","h">>     \* a name holding a control character
Nope == <<"N","o","p","e">>                  \* a name the server does not have
NoFolder == <<>>

\* The server's LIST "" "*" answer, in enumeration order.
ServerList == <<INBOX, SPAM, Work, GmailAllMail, TabTrash, Trash>>
ServerFolders == {ServerList[i] : i \in 1..Len(ServerList)}

folders_to_skip(name) ==
    LET lower == to_lowercase(name) IN
    \/ lower = <<"t","r","a","s","h">>
    \/ lower = <<"s","p","a","m">>
    \/ lower = <<"j","u","n","k">>
    \/ contains(lower, <<"a","l","l"," ","m","a","i","l">>)
    \/ lower = <<"[","g","m","a","i","l","]","/","a","l","l"," ","m","a","i","l">>
    \/ lower = <<"[","g","m","a","i","l","]","/","s","p","a","m">>
    \/ lower = <<"[","g","m","a","i","l","]","/","t","r","a","s","h">>

(***************************************************************************)
(* Query Compiler (the filters the modelled command lines use).            *)
(***************************************************************************)
\* A query is the sequence of its clauses; parts.join(" ") keeps their order.
\* Each clause is [key, arg]; build_query is Ok(parts) or the first error of
\* parse_date(since)?, parse_date(before)?, parse_size(larger)?.
Clause(key, arg) == [key |-> key, arg |-> arg]

\* The date and size filters dropped without being parsed.
build_query_Lenient(criteria) ==
    ROk(IF IsSome(criteria.subject)
        THEN <<Clause("SUBJECT", imap_quote(Unwrap(criteria.subject)))>>
        ELSE <<Clause("ALL", <<>>)>>)

\* The sender's clause pushed before the subject's.
QueryParts_FromFirst(criteria, since, before, larger) ==
    IF ~since.ok THEN since
    ELSE IF ~before.ok THEN before
    ELSE IF ~larger.ok THEN larger
    ELSE ROk((IF IsSome(criteria.from)
              THEN <<Clause("FROM", imap_quote(Unwrap(criteria.from)))>> ELSE <<>>)
             \o (IF IsSome(criteria.subject)
                 THEN <<Clause("SUBJECT", imap_quote(Unwrap(criteria.subject)))>> ELSE <<>>)
             \o (IF IsSome(criteria.since) THEN <<Clause("SINCE", since.val)>> ELSE <<>>)
             \o (IF IsSome(criteria.before) THEN <<Clause("BEFORE", before.val)>> ELSE <<>>)
             \o (IF IsSome(criteria.larger) THEN <<Clause("LARGER", larger.val)>> ELSE <<>>))

\* The parts of the query in the order build_query pushes them, given what
\* parse_date and parse_size returned: the first Err is returned (`?`), no
\* part at all gives ALL.
QueryParts(criteria, since, before, larger) ==
    IF ~since.ok THEN since
    ELSE IF ~before.ok THEN before
    ELSE IF ~larger.ok THEN larger
    ELSE IF /\ ~IsSome(criteria.subject) /\ ~IsSome(criteria.from) /\ ~IsSome(criteria.since)
            /\ ~IsSome(criteria.before) /\ ~IsSome(criteria.larger)
    THEN ROk(<<Clause("ALL", <<>>)>>)
    ELSE ROk((IF IsSome(criteria.subject)
              THEN <<Clause("SUBJECT", imap_quote(Unwrap(criteria.subject)))>> ELSE <<>>)
             \o (IF IsSome(criteria.from)
                 THEN <<Clause("FROM", imap_quote(Unwrap(criteria.from)))>> ELSE <<>>)
             \o (IF IsSome(criteria.since) THEN <<Clause("SINCE", since.val)>> ELSE <<>>)
             \o (IF IsSome(criteria.before) THEN <<Clause("BEFORE", before.val)>> ELSE <<>>)
             \o (IF IsSome(criteria.larger) THEN <<Clause("LARGER", larger.val)>> ELSE <<>>))

build_query(criteria) ==
    QueryParts(criteria,
               IF IsSome(criteria.since) THEN parse_date(Unwrap(criteria.since)) ELSE ROk(<<>>),
               IF IsSome(criteria.before) THEN parse_date(Unwrap(criteria.before)) ELSE ROk(<<>>),
               IF IsSome(criteria.larger) THEN parse_size(Unwrap(criteria.larger)) ELSE ROk(<<>>))

(***************************************************************************)
(* UID Set Encoder.                                                        *)
(***************************************************************************)
MAX_UID_SET_LENGTH == 4000

SeqToSet(s) == {s[i] : i \in 1..Len(s)}

\* sort_unstable, dedup: the distinct UIDs in ascending order (each UID at
\* the place its rank gives it).
SortAsc(S) ==
    LET rank == [x \in S |-> Cardinality({y \in S : y < x}) + 1]
    IN [i \in 1..Cardinality(S) |-> CHOOSE x \in S : rank[x] = i]

RECURSIVE Digits(_)
Digits(n) == IF n < 10 THEN 1 ELSE 1 + Digits(n \div 10)

\* Compression dropped: one entry per UID.
BuildRanges_Singletons(sorted, lo, hi) ==
    [i \in 1..(hi - lo + 1) |-> <<sorted[lo + i - 1], sorted[lo + i - 1]>>]

\* "build ranges" over sorted[lo..hi]: the loop extends the last range when
\* the next UID is end + 1 and opens a new one otherwise, so the ranges of a
\* list are those of its two halves, joined where the halves meet.
RECURSIVE BuildRanges(_, _, _)
BuildRanges(sorted, lo, hi) ==
    IF lo = hi THEN <<<<sorted[lo], sorted[lo]>>>>
    ELSE LET mid == (lo + hi) \div 2
             left == BuildRanges(sorted, lo, mid)
             right == BuildRanges(sorted, mid + 1, hi)
             l == left[Len(left)]
             r == right[1]
         IN IF r[1] = l[2] + 1
            THEN SubSeq(left, 1, Len(left) - 1) \o <<<<l[1], r[2]>>>> \o Tail(right)
            ELSE left \o right

\* format!("{s}") or format!("{s}:{e}"): the length of the part.
PartLen(r) == IF r[1] = r[2] THEN Digits(r[1]) ELSE Digits(r[1]) + 1 + Digits(r[2])

\* The length of the parts joined by ','.
RECURSIVE ChunkLen(_)
ChunkLen(c) ==
    IF c = <<>> THEN 0
    ELSE IF Len(c) = 1 THEN PartLen(c[1])
    ELSE LET mid == Len(c) \div 2
         IN ChunkLen(SubSeq(c, 1, mid)) + 1 + ChunkLen(SubSeq(c, mid + 1, Len(c)))

\* The limit dropped: every range goes into the one chunk.
PackChunks_Unbounded(ranges) == IF ranges = <<>> THEN <<>> ELSE <<ranges>>

\* The packing loop: a chunk is the sequence of the ranges it holds.  The
\* current chunk takes the first range and then every next one as long as
\* current.len() + 1 + part.len() <= MAX_UID_SET_LENGTH.
RECURSIVE PackChunks(_)
PackChunks(ranges) ==
    IF ranges = <<>> THEN <<>>
    ELSE LET fits == {k \in 1..Len(ranges) :
                         k = 1 \/ ChunkLen(SubSeq(ranges, 1, k)) <= MAX_UID_SET_LENGTH}
             take == CHOOSE k \in fits :
                         /\ \A j \in 1..k : j \in fits
                         /\ (k + 1) \notin fits
         IN <<SubSeq(ranges, 1, take)>> \o PackChunks(SubSeq(ranges, take + 1, Len(ranges)))

\* The order of the list kept with its repeats: sort_unstable without dedup.
SortKeepingDuplicates(s) ==
    LET rank == [i \in 1..Len(s) |->
                    Cardinality({j \in 1..Len(s) : s[j] < s[i] \/ (s[j] = s[i] /\ j < i)}) + 1]
    IN [k \in 1..Len(s) |-> s[CHOOSE i \in 1..Len(s) : rank[i] = k]]

\* sort_unstable dropped: the ranges are built in the order given.
build_uid_set_Unsorted(uids) ==
    IF uids = <<>> THEN <<>>
    ELSE PackChunks(BuildRanges(uids, 1, Len(uids)))

\* dedup dropped: a UID given twice stays twice.
build_uid_set_NoDedup(uids) ==
    IF uids = <<>> THEN <<>>
    ELSE LET sorted == SortKeepingDuplicates(uids)
         IN PackChunks(BuildRanges(sorted, 1, Len(sorted)))

build_uid_set(uids) ==
    IF uids = <<>> THEN <<>>
    ELSE LET sorted == SortAsc(SeqToSet(uids))
         IN PackChunks(BuildRanges(sorted, 1, Len(sorted)))

\* format!("{s}") or format!("{s}:{e}")
PartText(r) ==
    IF r[1] = r[2] THEN FormatNum(r[1]) ELSE FormatNum(r[1]) \o <<":">> \o FormatNum(r[2])

\* The string of a chunk: its parts joined by ','.
RECURSIVE ChunkText(_)
ChunkText(c) ==
    IF c = <<>> THEN <<>>
    ELSE IF Len(c) = 1 THEN PartText(c[1])
    ELSE LET mid == Len(c) \div 2
         IN ChunkText(SubSeq(c, 1, mid)) \o <<",">> \o ChunkText(SubSeq(c, mid + 1, Len(c)))

\* The longest entry of a UID set: two u32 numbers and a colon.
MaxPartLen == 21

\* A sequence-set as the server reads it (RFC 3501): the entries between the
\* commas, each a number or number:number; one <<position, first, last>> per
\* entry.
ReadUidSet(text) ==
    LET starts == {p \in 1..Len(text) : p = 1 \/ text[p - 1] = ","}
        stop(p) == CHOOSE q \in p..Min(p + MaxPartLen, Len(text)) :
                       /\ q = Len(text) \/ text[q + 1] = ","
                       /\ \A k \in p..q : text[k] # ","
        entry(p) ==
            LET part == SubSeq(text, p, stop(p))
                colons == {k \in 1..Len(part) : part[k] = ":"}
            IN IF colons = {} THEN <<p, DigitsValue(part, 0), DigitsValue(part, 0)>>
               ELSE LET k == CHOOSE x \in colons : TRUE
                    IN <<p, DigitsValue(SubSeq(part, 1, k - 1), 0),
                            DigitsValue(SubSeq(part, k + 1, Len(part)), 0)>>
    IN {entry(p) : p \in starts}

\* The server's reading of a UID set: the UIDs its ranges cover.
UidsOf(chunk) == UNION {r[1]..r[2] : r \in SeqToSet(chunk)}

(***************************************************************************)
(* The server.                                                             *)
(***************************************************************************)
SubjInvoice == <<"I","n","v","o","i","c","e">>
SubjNews == <<"N","e","w","s">>

\* Date header of INBOX message u as the timestamp mailparse::dateparse gives
\* (0: unparsable).  UIDs 1 and 2 tie; every third date is unparsable.
InboxTs(u) == IF u % 3 = 0 THEN 0 ELSE 2 + (u \div 3)

Msg(uid, id, ts, subj, flags) ==
    [uid |-> uid, id |-> id, ts |-> ts, subj |-> subj, flags |-> flags]

InitMbox ==
    [f \in ServerFolders |->
        CASE f = INBOX ->
               {Msg(u, u, InboxTs(u),
                    IF u % 2 = 1 THEN SubjInvoice ELSE SubjNews,
                    IF u = 2 THEN {"\\Deleted"} ELSE {}) : u \in 1..InboxSize}
          [] f = Work -> {Msg(1, 101, 4, SubjInvoice, {}), Msg(2, 102, 1, SubjNews, {})}
          [] f = Trash -> {Msg(1, 201, 5, SubjInvoice, {})}
          [] f = SPAM -> {Msg(1, 301, 6, SubjInvoice, {})}
          [] f = GmailAllMail -> {Msg(9, 401, 7, SubjInvoice, {})}
          [] f = TabTrash -> {Msg(3, 501, 1, SubjNews, {})}]

MaxUidIn(S) == IF S = {} THEN 0 ELSE CHOOSE u \in {m.uid : m \in S} : \A m \in S : m.uid <= u

RECURSIVE Unescape(_)
Unescape(s) ==
    IF s = <<>> THEN <<>>
    ELSE IF Head(s) = "\\" /\ Len(s) >= 2 THEN <<s[2]>> \o Unescape(Tail(Tail(s)))
    ELSE <<Head(s)>> \o Unescape(Tail(s))

\* The server's reading of a quoted string.
Unquote(q) == Unescape(SubSeq(q, 2, Len(q) - 1))

\* What the server holds of a message besides its subject: the sender, the
\* internal date (the days of January 2024, by timestamp) and the size.
MsgFrom(m) == <<"b","o","b","@","x",".","o","r","g">>
InternalDate(m) == [year |-> 2024, month |-> 1, day |-> 1 + m.ts]
MsgSize(m) == 1000 * m.uid

\* The server's reading of a date D-Mon-YYYY.
ReadDate(arg) ==
    LET i == CHOOSE k \in 1..Len(arg) : arg[k] = "-" /\ \A j \in 1..(k - 1) : arg[j] # "-"
    IN [year |-> DigitsValue(SubSeq(arg, i + 5, Len(arg)), 0),
        month |-> CHOOSE n \in 1..12 : MONTH_ABBRS[n] = SubSeq(arg, i + 1, i + 3),
        day |-> DigitsValue(SubSeq(arg, 1, i - 1), 0)]

DateLeq(a, b) ==
    \/ a.year < b.year
    \/ a.year = b.year /\ a.month < b.month
    \/ a.year = b.year /\ a.month = b.month /\ a.day <= b.day

\* The server's evaluation of one query on one message (SUBJECT and FROM:
\* substring, case-insensitive; SINCE and BEFORE: the internal date; LARGER:
\* the size).
Matches(q, m) ==
    \A i \in 1..Len(q) :
        \/ q[i].key = "ALL"
        \/ /\ q[i].key = "SUBJECT"
           /\ contains(to_lowercase(m.subj), to_lowercase(Unquote(q[i].arg)))
        \/ /\ q[i].key = "FROM"
           /\ contains(to_lowercase(MsgFrom(m)), to_lowercase(Unquote(q[i].arg)))
        \/ /\ q[i].key = "SINCE"
           /\ DateLeq(ReadDate(q[i].arg), InternalDate(m))
        \/ /\ q[i].key = "BEFORE"
           /\ ~DateLeq(ReadDate(q[i].arg), InternalDate(m))
        \/ /\ q[i].key = "LARGER"
           /\ ~NumLeq(FormatNum(MsgSize(m)), q[i].arg)

Matching(f, q) == {m \in mbox[f] : Matches(q, m)}

IsSortedDesc(rows) ==
    \A i \in 1..(Len(rows) - 1) : rows[i].timestamp >= rows[i + 1].timestamp

\* All arrangements of a finite set as sequences.
Arrangements(S) ==
    {s \in [1..Cardinality(S) -> S] : \A i, j \in 1..Cardinality(S) : i # j => s[i] # s[j]}

\* UID SORT (REVERSE DATE): the matching UIDs, newest first; the server breaks ties.
SortAnswers(f, q) ==
    {[i \in 1..Len(a) |-> a[i].uid] :
        a \in {b \in Arrangements(Matching(f, q)) :
                  \A i \in 1..(Len(b) - 1) : b[i].ts >= b[i + 1].ts}}

\* UID COPY: the messages of the set, appended to dest under fresh UIDs.
RECURSIVE CopyInto(_, _, _)
CopyInto(srcUids, src, dst) ==
    IF srcUids = <<>> THEN dst
    ELSE LET m == CHOOSE x \in src : x.uid = Head(srcUids)
             n == [m EXCEPT !.uid = dst.next, !.flags = m.flags \ {"\\Deleted"}]
         IN CopyInto(Tail(srcUids), src,
                     [msgs |-> dst.msgs \cup {n}, next |-> dst.next + 1])

Copied(box, nxt, from, set, dest) ==
    LET uids == SortAsc({m.uid : m \in box[from]} \cap UidsOf(set))
    IN CopyInto(uids, box[from], [msgs |-> box[dest], next |-> nxt[dest]])

(***************************************************************************)
(* The UID SORT response: text.lines() is modelled as the sequence of the   *)
(* lines, each line a sequence of characters.                              *)
(***************************************************************************)
SortPrefix == <<"*", " ", "S", "O", "R", "T", " ">>

\* for tok in rest.split_whitespace() { if let Ok(uid) = tok.parse::<u32>() { uids.push(uid) } }
RECURSIVE PushParsed(_)
PushParsed(toks) ==
    IF toks = <<>> THEN <<>>
    ELSE LET n == parse_u32(Head(toks))
         IN (IF IsSome(n) THEN <<Unwrap(n)>> ELSE <<>>) \o PushParsed(Tail(toks))

\* The second `if` of the loop body: a BAD or NO on a line that is not untagged.
LineRejects(line) ==
    /\ contains(line, <<"B","A","D">>) \/ contains(line, <<"N","O">>)
    /\ ~starts_with(line, <<"*">>)

\* parse_sort_response: its result after the lines given, from the state acc
\* = [ok, uids, saw_sort] of the loop.
RECURSIVE ParseLines(_, _)
ParseLines(lines, acc) ==
    IF lines = <<>> THEN acc
    ELSE LET rest == strip_prefix(Head(lines), SortPrefix)
             nxt == IF IsSome(rest)
                    THEN [acc EXCEPT !.saw_sort = TRUE,
                                     !.uids = acc.uids \o PushParsed(split_whitespace(Unwrap(rest)))]
                    ELSE acc
         IN IF LineRejects(Head(lines)) THEN [nxt EXCEPT !.ok = FALSE]
            ELSE ParseLines(Tail(lines), nxt)

parse_sort_response(data) ==
    LET r == ParseLines(data, [ok |-> TRUE, uids |-> <<>>, saw_sort |-> FALSE])
    IN IF ~r.ok THEN r
       ELSE IF ~r.saw_sort /\ r.uids # <<>> THEN [r EXCEPT !.ok = FALSE]
       ELSE r

\* The line a server sends for the identifiers uids: "* SORT" and one " n" each.
RECURSIVE SortLineFrom(_)
SortLineFrom(uids) ==
    IF uids = <<>> THEN <<>> ELSE <<" ">> \o FormatNum(Head(uids)) \o SortLineFrom(Tail(uids))

SortLine(uids) == <<"*", " ", "S", "O", "R", "T">> \o SortLineFrom(uids)

\* What the server's answer to UID SORT may hold for the ordering uids: the
\* line of the protocol, or one of two broken answers (the first identifier
\* replaced by a word, a line of noise after the line).
SortResponses(uids) ==
    {<<SortLine(uids)>>}
    \cup (IF uids = <<>> \/ faults # "sort" THEN {}
          ELSE {<<<<"*", " ", "S", "O", "R", "T", " ", "x">> \o SortLineFrom(Tail(uids))>>,
                <<SortLine(uids), <<"N", "O", "I", "S", "E">>>>})

(***************************************************************************)
(* The session's log and the client's records.                             *)
(***************************************************************************)
\* data: what the server answered (the UID SORT response lines, the UIDs of the
\* UID FETCH records).
Entry(c, set, mailbox, text, ok) ==
    [cmd |-> c, set |-> set, mailbox |-> mailbox, text |-> text, ok |-> ok, data |-> <<>>]

Ok == [status |-> "ok", err |-> "-"]
Err(e) == [status |-> "err", err |-> e]
NoResult == [status |-> "none", err |-> "-"]

\* The error chain of an aborted move: the context of search_and_move, which
\* names the source and the destination, over the context of the failed step.
MoveErr(folder, dest, cause) ==
    [status |-> "err", err |-> "Failed to move messages",
     from |-> folder, to |-> dest, cause |-> cause]

\* .with_context(|| format!("Failed to select '{folder}'"))
SelectErr(folder) ==
    [status |-> "err", err |-> "Failed to select", from |-> folder]

\* The context uid_move_or_fallback puts on each step.
StepContext(step) ==
    CASE step = "UID MOVE" -> "UID MOVE failed"
      [] step = "UID COPY" -> "UID COPY failed"
      [] step = "UID STORE" -> "UID STORE +FLAGS failed"
      [] step = "EXPUNGE" -> "EXPUNGE failed"

NoFetch ==
    [folder |-> NoFolder, include_folder |-> FALSE, limit |-> None,
     ordered_uids |-> <<>>, pre_sorted |-> FALSE, chunks |-> <<>>, by_uid |-> {}]

NoMove ==
    [folder |-> NoFolder, chunks |-> <<>>, uid_set |-> <<>>, start |-> 0, status |-> "idle"]

\* The truncation dropped.
Truncate_None(s, limit) == s

\* Vec::truncate under an Option<usize> limit.
Truncate(s, limit) ==
    IF IsSome(limit) THEN SubSeq(s, 1, Min(Unwrap(limit), Len(s))) ELSE s

\* slice::sort_by(|a, b| b.timestamp.cmp(&a.timestamp)): stable, newest first.
RECURSIVE InsertDesc(_, _)
InsertDesc(sorted, row) ==
    IF sorted = <<>> THEN <<row>>
    ELSE IF Head(sorted).timestamp >= row.timestamp
         THEN <<Head(sorted)>> \o InsertDesc(Tail(sorted), row)
    ELSE <<row>> \o sorted

RECURSIVE SortDesc(_)
SortDesc(rows) ==
    IF rows = <<>> THEN <<>>
    ELSE InsertDesc(SortDesc(SubSeq(rows, 1, Len(rows) - 1)), rows[Len(rows)])

(***************************************************************************)
(* Command lines.                                                          *)
(***************************************************************************)
SubjectFilter == <<"i","n","v">>
default_folder == INBOX
default_trash == Trash

Limits == {None} \cup {Some(n) : n \in 0..MaxLimit}

\* FilterArgs::to_criteria over the flags --folder, --all-folders, --subject, -n.
Criterias ==
    {[folder |-> f, all_folders |-> a, subject |-> s, limit |-> l,
      from |-> None, since |-> None, before |-> None, larger |-> None] :
        f \in {default_folder, Work, Nope}, a \in BOOLEAN,
        s \in {None, Some(SubjectFilter)}, l \in Limits}

\* Values of --from, --since, --before and --larger: for each, None, accepted
\* expressions and rejected ones.
FromArgs == {None, Some(<<"B","o","b">>)}
SinceArgs == {None, Some(<<"2","0","2","4","-","0","1","-","0","3">>), Some(<<"2","w">>), Some(<<"2","0","2","5","-","1","3","-","0","1">>), Some(<<"y","e","s","t","e","r","d","a","y">>)}
BeforeArgs == {None, Some(<<"2","0","2","4","-","0","1","-","0","2">>), Some(<<"0","1","/","0","2","/","2","0","2","4">>)}
LargerArgs == {None, Some(<<"1","K">>), Some(<<"1","0","x">>), Some(<<" ">>)}

\* to_criteria over these flags, on the default folder: at most one of them
\* given, or two that are both rejected.
FilterCriterias ==
    {[folder |-> default_folder, all_folders |-> a, subject |-> None, limit |-> None,
      from |-> f, since |-> s, before |-> b, larger |-> l] :
        a \in BOOLEAN, f \in FromArgs, s \in SinceArgs, b \in BeforeArgs, l \in LargerArgs}

IsGiven(c) ==
    {k \in {"from", "since", "before", "larger"} : IsSome(c[k])}

OneFilterCriterias ==
    {c \in FilterCriterias :
        \/ Cardinality(IsGiven(c)) = 1 /\ (c.all_folders => IsSome(c.since))
        \/ /\ ~c.all_folders
           /\ c.since = Some(<<"2","0","2","5","-","1","3","-","0","1">>) /\ c.larger = Some(<<"1","0","x">>)
           /\ c.from = None /\ c.before = None}

Commands ==
    {[name |-> "search", criteria |-> c, dest |-> NoFolder, yes |-> TRUE, dry_run |-> FALSE] :
        c \in {x \in Criterias : x.all_folders => x.folder = default_folder}
               \cup OneFilterCriterias}
    \cup
    {[name |-> "count", criteria |-> c, dest |-> NoFolder, yes |-> TRUE, dry_run |-> FALSE] :
        c \in {x \in Criterias : /\ x.all_folders => x.folder = default_folder
                                 /\ x.limit = None}
               \cup OneFilterCriterias}
    \cup
    {[name |-> "move", criteria |-> c, dest |-> d, yes |-> TRUE, dry_run |-> r] :
        c \in {x \in Criterias : /\ x.all_folders => x.folder = default_folder
                                 /\ x.limit \in {None, Some(1)}
                                 /\ x.all_folders => (x.limit = None <=> x.subject = None)},
        d \in {Trash, Nope}, r \in BOOLEAN}
    \cup
    {[name |-> "move", criteria |-> c, dest |-> d, yes |-> FALSE, dry_run |-> FALSE] :
        c \in {x \in Criterias : /\ x.folder = default_folder /\ ~x.all_folders
                                 /\ x.limit = None /\ x.subject = None},
        d \in {Trash, Nope}}
    \cup
    {[name |-> "delete", criteria |-> c, dest |-> default_trash, yes |-> TRUE, dry_run |-> r] :
        c \in {x \in Criterias : /\ x.folder = default_folder /\ ~x.all_folders
                                 /\ x.limit \in {None, Some(1)}},
        r \in BOOLEAN}
    \cup
    \* --folder naming the listed mailbox whose name holds a control character
    {[name |-> "delete", criteria |-> c, dest |-> default_trash, yes |-> TRUE, dry_run |-> FALSE] :
        c \in {[folder |-> TabTrash, all_folders |-> FALSE, subject |-> None, limit |-> None,
                from |-> None, since |-> None, before |-> None, larger |-> None]}}

has_capability(cap) == cap \in caps

\* The existence check dropped.
SearchFolderExists_Always(folder) == TRUE

\* search::ensure_folder_exists: folders.iter().any(|f| f.name() == folder)
SearchFolderExists(folder) == \E i \in 1..Len(ServerList) : ServerList[i] = folder

\* The destination check dropped.
DestFolderExists_Always(folder) == TRUE

\* delete::ensure_folder_exists: folders.iter().any(|f| f.name() == folder)
DestFolderExists(folder) == \E i \in 1..Len(ServerList) : ServerList[i] = folder

Init ==
    /\ mbox = InitMbox
    /\ uidnext = [f \in ServerFolders |-> MaxUidIn(InitMbox[f]) + 1]
    /\ caps \in SUBSET {"MOVE", "SORT"}
    /\ faults \in {"none", "sort", "fetch", "uid"}
    /\ results = <<>>
    /\ selected = NoFolder
    /\ pc = "main"
    /\ cmd = [name |-> "none", criteria |-> [folder |-> NoFolder, all_folders |-> FALSE,
                                             subject |-> None, limit |-> None,
                                             from |-> None, since |-> None,
                                             before |-> None, larger |-> None],
              dest |-> NoFolder, yes |-> FALSE, dry_run |-> FALSE]
    /\ log = <<>>
    /\ warnings = <<>>
    /\ result = NoResult
    /\ query = <<>>
    /\ folder_names = <<>>
    /\ all_messages = <<>>
    /\ fetch = NoFetch
    /\ messages = None
    /\ confirm = "unasked"
    /\ by_folder = <<>>
    /\ move = NoMove

(***************************************************************************)
(* main: dispatch.                                                         *)
(***************************************************************************)
Dispatch ==
    /\ pc = "main"
    /\ \E c \in Commands : cmd' = c /\ pc' = IF c.name = "count" THEN "count" ELSE "search"
    /\ UNCHANGED <<mbox, uidnext, caps, faults, results, selected, log, warnings, result, query,
                   folder_names, all_messages, fetch, messages, confirm, by_folder, move>>

(***************************************************************************)
(* search returns to its caller: main (Commands::Search, with `?`) or      *)
(* search_and_move, which goes on to its early returns.                    *)
(***************************************************************************)
\* The dry-run return dropped.
AfterSearch_NoDryRun(rows) == IF rows = <<>> THEN "return" ELSE "m_ensure"

\* search_and_move after `search(...)?`: "return" for its two early returns
\* (no match, dry run), else on to the destination check.
AfterSearch(rows) ==
    IF rows = <<>> THEN "return"
    ELSE IF cmd.dry_run THEN "return"
    ELSE "m_ensure"

SearchReturns(ok, rows, err) ==
    /\ messages' = IF ok THEN Some(rows) ELSE None
    /\ IF cmd.name = "search"
       THEN IF ok THEN result' = Ok /\ pc' = "logout"
                  ELSE result' = Err(err) /\ pc' = "done"
       ELSE IF ~ok THEN result' = Err(err) /\ pc' = "logout"
       ELSE IF AfterSearch(rows) = "return" THEN result' = Ok /\ pc' = "logout"
       ELSE result' = result /\ pc' = AfterSearch(rows)

\* `fetch_messages(...)?` in the loop: one mailbox's error ends the search.
FetchReturns_Abort(ok, rows, err) ==
    IF cmd.criteria.all_folders /\ ok
    THEN /\ all_messages' = all_messages \o rows
         /\ folder_names' = Tail(folder_names)
         /\ pc' = "s_loop"
         /\ UNCHANGED <<result, messages, warnings>>
    ELSE /\ SearchReturns(ok, rows, err)
         /\ UNCHANGED <<all_messages, warnings, folder_names>>

\* fetch_messages returns: to the all_folders loop (match ... Ok / Err) or,
\* in single-mailbox mode, out of search.
FetchReturns(ok, rows, err) ==
    IF cmd.criteria.all_folders
    THEN /\ all_messages' = IF ok THEN all_messages \o rows ELSE all_messages
         /\ warnings' = IF ok THEN warnings
                        ELSE Append(warnings, [kind |-> "skipping folder",
                                               folder |-> Head(folder_names)])
         /\ folder_names' = Tail(folder_names)
         /\ pc' = "s_loop"
         /\ UNCHANGED <<result, messages>>
    ELSE /\ SearchReturns(ok, rows, err)
         /\ UNCHANGED <<all_messages, warnings, folder_names>>

\* criteria.limit handed down to every mailbox.
PerMailboxLimit_Criteria(criteria) == criteria.limit

\* The limit search hands to fetch_messages for each mailbox of an all_folders search.
PerMailboxLimit(criteria) == None

StartFetch(folder, include_folder, limit) ==
    [NoFetch EXCEPT !.folder = sanitize(folder), !.include_folder = include_folder,
                    !.limit = limit]

(***************************************************************************)
(* search.                                                                 *)
(***************************************************************************)
\* let query = build_query(criteria)?;
Search ==
    /\ pc = "search"
    /\ \E q \in {build_query(cmd.criteria)} :
          IF q.ok
          THEN /\ query' = q.val
               /\ pc' = "s_list"
               /\ UNCHANGED <<result, messages>>
          ELSE /\ SearchReturns(FALSE, <<>>, q.err)
               /\ UNCHANGED query
    /\ UNCHANGED <<mbox, uidnext, caps, faults, results, selected, cmd, log, warnings,
                   folder_names, all_messages, fetch, confirm, by_folder, move>>

\* session.list(): the all_folders enumeration, or search::ensure_folder_exists.
SearchList ==
    /\ pc = "s_list"
    /\ \E ok \in BOOLEAN :
        /\ log' = Append(log, Entry("LIST", <<>>, NoFolder, "*", ok))
        /\ IF ~ok
           THEN /\ SearchReturns(FALSE, <<>>, "Failed to list folders")
                /\ UNCHANGED <<folder_names, all_messages, fetch>>
           ELSE IF cmd.criteria.all_folders
           THEN /\ folder_names' = SelectSeq(ServerList, LAMBDA n : ~folders_to_skip(n))
                /\ all_messages' = <<>>
                /\ pc' = "s_loop"
                /\ UNCHANGED <<result, messages, fetch>>
           ELSE IF ~SearchFolderExists(cmd.criteria.folder)
           THEN /\ SearchReturns(FALSE, <<>>, "does not exist")
                /\ UNCHANGED <<folder_names, all_messages, fetch>>
           ELSE /\ fetch' = StartFetch(cmd.criteria.folder, FALSE, cmd.criteria.limit)
                /\ pc' = "f_select"
                /\ UNCHANGED <<result, messages, folder_names, all_messages>>
    /\ UNCHANGED <<mbox, uidnext, caps, faults, results, selected, cmd, warnings, query, confirm, by_folder, move>>

SearchNextFolder ==
    /\ pc = "s_loop"
    /\ folder_names # <<>>
    /\ fetch' = StartFetch(Head(folder_names), TRUE, PerMailboxLimit(cmd.criteria))
    /\ pc' = "f_select"
    /\ UNCHANGED <<mbox, uidnext, caps, faults, results, selected, cmd, log, warnings, result, query,
                   folder_names, all_messages, messages, confirm, by_folder, move>>

SearchAllFinish ==
    /\ pc = "s_loop"
    /\ folder_names = <<>>
    /\ SearchReturns(TRUE, Truncate(SortDesc(all_messages), cmd.criteria.limit), "-")
    /\ UNCHANGED <<mbox, uidnext, caps, faults, results, selected, cmd, log, warnings, query,
                   folder_names, all_messages, fetch, confirm, by_folder, move>>

(***************************************************************************)
(* fetch_messages.                                                         *)
(***************************************************************************)
Select ==
    /\ pc = "f_select"
    /\ \E ok \in BOOLEAN :
        /\ ok => fetch.folder \in ServerFolders
        /\ log' = Append(log, Entry("SELECT", <<>>, fetch.folder, "", ok))
        /\ IF ok
           THEN /\ selected' = fetch.folder
                /\ pc' = "f_sort"
                /\ UNCHANGED <<result, messages, folder_names, all_messages, warnings>>
           ELSE /\ selected' = NoFolder
                /\ FetchReturns(FALSE, <<>>, "Failed to select folder")
    /\ UNCHANGED <<mbox, uidnext, caps, faults, results, cmd, query, fetch, confirm, by_folder, move>>

\* The identifiers are known: return at once when there are none, else encode them.
GotUids(uids, pre_sorted) ==
    /\ fetch' = [fetch EXCEPT !.ordered_uids = uids, !.pre_sorted = pre_sorted,
                              !.chunks = build_uid_set(uids)]
    /\ IF uids = <<>>
       THEN FetchReturns(TRUE, <<>>, "-")
       ELSE /\ pc' = "f_fetch"
            /\ UNCHANGED <<result, messages, folder_names, all_messages, warnings>>

\* The capability test dropped: UID SORT is always tried.
SortAdvertised_Always == TRUE

\* if !session.has_capability("SORT") { return Ok(None); }
SortAdvertised == has_capability("SORT")

\* try_uid_sort without the SORT capability: Ok(None), nothing is sent.
SortUnsupported ==
    /\ pc = "f_sort"
    /\ ~SortAdvertised
    /\ pc' = "f_search"
    /\ UNCHANGED <<mbox, uidnext, caps, faults, results, selected, cmd, log, warnings, result, query,
                   folder_names, all_messages, fetch, messages, confirm, by_folder, move>>

\* The rejection returned as an error of the mailbox.
SortRejected_Fatal ==
    /\ pc = "f_sort"
    /\ SortAdvertised
    /\ log' = Append(log, Entry("UID SORT", <<>>, NoFolder, "(REVERSE DATE) UTF-8", FALSE))
    /\ FetchReturns(FALSE, <<>>, "SORT failed")
    /\ UNCHANGED <<mbox, uidnext, caps, faults, results, selected, cmd, query,
                   fetch, confirm, by_folder, move>>

\* UID SORT rejected (run_command_and_read_response is Err): warn, Ok(None).
SortRejected ==
    /\ pc = "f_sort"
    /\ SortAdvertised
    /\ log' = Append(log, Entry("UID SORT", <<>>, NoFolder, "(REVERSE DATE) UTF-8", FALSE))
    /\ warnings' = Append(warnings, [kind |-> "SORT failed", folder |-> NoFolder])
    /\ pc' = "f_search"
    /\ UNCHANGED <<mbox, uidnext, caps, faults, results, selected, cmd, result, query,
                   folder_names, all_messages, fetch, messages, confirm, by_folder, move>>

\* The sorted identifiers handed on whole: no cut before FETCH.
SortedIds_Whole(uids, limit) == uids

\* Some(mut uids) => { if let Some(n) = limit { uids.truncate(n); } (uids, true) }
SortedIds(uids, limit) == Truncate(uids, limit)

\* UID SORT answered: parse_sort_response(&data)?, then Ok(Some(uids)),
\* truncated to the limit before FETCH.
SortOk ==
    /\ pc = "f_sort"
    /\ SortAdvertised
    /\ \E uids \in SortAnswers(selected, query) : \E data \in SortResponses(uids) :
          /\ log' = Append(log, [Entry("UID SORT", <<>>, NoFolder, "(REVERSE DATE) UTF-8", TRUE)
                                    EXCEPT !.data = data])
          /\ IF parse_sort_response(data).ok
             THEN GotUids(SortedIds(parse_sort_response(data).uids, fetch.limit), TRUE)
             ELSE /\ FetchReturns(FALSE, <<>>, "SORT command rejected by server")
                  /\ UNCHANGED fetch
    /\ UNCHANGED <<mbox, uidnext, caps, faults, results, selected, cmd, query, confirm, by_folder, move>>

UidSearch ==
    /\ pc = "f_search"
    /\ \E ok \in BOOLEAN :
        /\ log' = Append(log, Entry("UID SEARCH", <<>>, NoFolder, "", ok))
        /\ IF ok
           THEN GotUids(SortAsc({m.uid : m \in Matching(selected, query)}), FALSE)
           ELSE /\ FetchReturns(FALSE, <<>>, "IMAP SEARCH failed")
                /\ UNCHANGED fetch
    /\ UNCHANGED <<mbox, uidnext, caps, faults, results, selected, cmd, query, confirm, by_folder, move>>

\* The label taken from the criteria instead of the mailbox being fetched.
Row_CriteriaFolder(m) ==
    [uid |-> m.uid,
     folder |-> IF fetch.include_folder THEN Some(cmd.criteria.folder) ELSE None,
     timestamp |-> m.ts]

\* MessageRow { uid, folder: if include_folder { Some(clean_folder) } else { None }, .. }
Row(m) ==
    [uid |-> m.uid,
     folder |-> IF fetch.include_folder THEN Some(fetch.folder) ELSE None,
     timestamp |-> m.ts]

\* by_uid.insert(uid, row) for every record of the answer.
InsertAll(by_uid, rows) ==
    {r \in by_uid : r.uid \notin {n.uid : n \in rows}} \cup rows

\* ordered_uids.into_iter().filter_map(|uid| by_uid.remove(&uid)).collect()
RECURSIVE FilterMap(_, _)
FilterMap(uids, by_uid) ==
    IF uids = <<>> THEN <<>>
    ELSE LET hit == {r \in by_uid : r.uid = Head(uids)}
         IN IF hit = {} THEN FilterMap(Tail(uids), by_uid)
            ELSE <<CHOOSE r \in hit : TRUE>> \o FilterMap(Tail(uids), by_uid \ hit)

\* The pre_sorted branch dropped: the rows are always re-sorted by timestamp.
Assembled_Resorted(f, by_uid) ==
    {Truncate(SortDesc(a), f.limit) : a \in Arrangements(by_uid)}

\* truncate before sort_by: the limit cuts the map's values as they come.
Assembled_CutFirst(f, by_uid) ==
    IF f.pre_sorted
    THEN {FilterMap(f.ordered_uids, by_uid)}
    ELSE {SortDesc(Truncate(a, f.limit)) : a \in Arrangements(by_uid)}

\* The rows fetch_messages may return: server order kept, or the map's values
\* (in any order) stably sorted newest first and cut to the limit.
Assembled(f, by_uid) ==
    IF f.pre_sorted
    THEN {FilterMap(f.ordered_uids, by_uid)}
    ELSE {Truncate(SortDesc(a), f.limit) : a \in Arrangements(by_uid)}

\* Some(u) if u > 0
ValidUid(uid) == IsSome(uid) /\ Unwrap(uid) > 0

\* The records without a usable UID that an answer holds beside the others
\* when the server is broken that way: one without the UID item, one with UID 0.
InvalidRecords ==
    IF faults = "uid"
    THEN {[uid |-> None, msg |-> Msg(0, 0, 0, SubjNews, {})],
          [uid |-> Some(0), msg |-> Msg(0, 0, 0, SubjNews, {})]}
    ELSE {}

\* The records of an answer: one for each message sent, and the invalid ones.
Records(fetches) == {[uid |-> Some(m.uid), msg |-> m] : m \in fetches} \cup InvalidRecords

\* The test on the UID dropped: every record that has the UID item is kept.
Kept_AnyUid(records) == {r \in records : IsSome(r.uid)}

\* let uid = match fetch.uid { Some(u) if u > 0 => u, _ => { ...; continue; } };
Kept(records) == {r \in records : ValidUid(r.uid)}

\* The warnings after the records of one chunk: one more if a record was skipped.
WarnedAfter(records) ==
    IF records \ Kept(records) = {} THEN warnings
    ELSE Append(warnings, [kind |-> "invalid UID", folder |-> fetch.folder])

\* fetch_messages returns its rows after the last chunk, the warnings being w.
FetchDone(rows, w) ==
    /\ warnings' = w
    /\ IF cmd.criteria.all_folders
       THEN /\ all_messages' = all_messages \o rows
            /\ folder_names' = Tail(folder_names)
            /\ pc' = "s_loop"
            /\ UNCHANGED <<result, messages>>
       ELSE /\ messages' = Some(rows)
            /\ IF cmd.name = "search" THEN result' = Ok /\ pc' = "logout"
               ELSE IF AfterSearch(rows) = "return" THEN result' = Ok /\ pc' = "logout"
               ELSE result' = result /\ pc' = AfterSearch(rows)
            /\ UNCHANGED <<all_messages, folder_names>>

\* The records a UID FETCH of the chunk may answer: one per message of the
\* selected mailbox in the set, but for up to MaxLost of them (a message can be
\* gone by the time it is fetched).
FetchAnswers(chunk) ==
    LET all == {x \in mbox[selected] : x.uid \in UidsOf(chunk)}
    IN {all \ lost : lost \in {l \in SUBSET all :
                                   Cardinality(l) <= (IF faults = "fetch" THEN MaxLost ELSE 0)}}

UidFetch ==
    /\ pc = "f_fetch"
    /\ fetch.chunks # <<>>
    /\ \E ok \in BOOLEAN : \E fetches \in (IF ok THEN FetchAnswers(Head(fetch.chunks)) ELSE {{}}) :
        LET records == IF ok THEN Records(fetches) ELSE {}
        IN
        /\ log' = Append(log, [Entry("UID FETCH", Head(fetch.chunks), NoFolder, "", ok)
                                  EXCEPT !.data = SortAsc({Unwrap(r.uid) :
                                                     r \in {x \in records : IsSome(x.uid)}})])
        /\ IF ~ok
           THEN /\ FetchReturns(FALSE, <<>>, "IMAP FETCH failed")
                /\ UNCHANGED fetch
           ELSE LET got == {Row(r.msg) : r \in Kept(records)}
                    by == InsertAll(fetch.by_uid, got)
                IN /\ fetch' = [fetch EXCEPT !.chunks = Tail(fetch.chunks), !.by_uid = by]
                   /\ IF Tail(fetch.chunks) # <<>>
                      THEN /\ warnings' = WarnedAfter(records)
                           /\ UNCHANGED <<pc, result, messages, folder_names, all_messages>>
                      ELSE \E rows \in Assembled(fetch, by) :
                              FetchDone(rows, WarnedAfter(records))
    /\ UNCHANGED <<mbox, uidnext, caps, faults, results, selected, cmd, query, confirm, by_folder, move>>

(***************************************************************************)
(* search_and_move (delete is search_and_move to the trash folder).        *)
(***************************************************************************)
\* msg.folder.clone().unwrap_or_else(|| criteria.folder.clone())
FolderOf(row) == IF IsSome(row.folder) THEN Unwrap(row.folder) ELSE cmd.criteria.folder

\* by_folder.entry(folder).or_default().push(msg.uid)
GroupByFolder(rows) ==
    [f \in {FolderOf(rows[i]) : i \in 1..Len(rows)} |->
        LET mine == SelectSeq(rows, LAMBDA r : FolderOf(r) = f)
        IN [i \in 1..Len(mine) |-> mine[i].uid]]

\* delete::ensure_folder_exists(session, dest)
EnsureDest ==
    /\ pc = "m_ensure"
    /\ \E ok \in BOOLEAN :
        /\ log' = Append(log, Entry("LIST", <<>>, NoFolder, "*", ok))
        /\ IF ~ok
           THEN result' = Err("Failed to list folders") /\ pc' = "logout"
                /\ UNCHANGED by_folder
           ELSE IF ~DestFolderExists(cmd.dest)
           THEN result' = Err("does not exist") /\ pc' = "logout"
                /\ UNCHANGED by_folder
           ELSE IF cmd.yes
           THEN by_folder' = GroupByFolder(Unwrap(messages)) /\ pc' = "m_group"
                /\ UNCHANGED result
           ELSE pc' = "m_confirm" /\ UNCHANGED <<result, by_folder>>
    /\ UNCHANGED <<mbox, uidnext, caps, faults, results, selected, cmd, warnings, query,
                   folder_names, all_messages, fetch, messages, confirm, move>>

\* inquire::Confirm: the user confirms, declines, or the prompt fails.
Confirm ==
    /\ pc = "m_confirm"
    /\ \E answer \in {"yes", "no", "fail"} :
        /\ confirm' = answer
        /\ CASE answer = "yes" -> by_folder' = GroupByFolder(Unwrap(messages))
                                  /\ pc' = "m_group" /\ UNCHANGED result
             [] answer = "no" -> result' = Ok /\ pc' = "logout" /\ UNCHANGED by_folder
             [] answer = "fail" -> result' = Err("Prompt failed") /\ pc' = "logout"
                                   /\ UNCHANGED by_folder
    /\ UNCHANGED <<mbox, uidnext, caps, faults, results, selected, cmd, log, warnings, query,
                   folder_names, all_messages, fetch, messages, move>>

\* for (folder, uids) in &by_folder: the map's order is arbitrary.
SelectGroup ==
    /\ pc = "m_group"
    /\ \E f \in DOMAIN by_folder, ok \in BOOLEAN :
        /\ ok => f \in ServerFolders
        /\ log' = Append(log, Entry("SELECT", <<>>, f, "", ok))
        /\ IF ok
           THEN /\ selected' = f
                /\ move' = [NoMove EXCEPT !.folder = f, !.chunks = build_uid_set(by_folder[f])]
                /\ by_folder' = [g \in DOMAIN by_folder \ {f} |-> by_folder[g]]
                /\ pc' = "m_chunk"
                /\ UNCHANGED result
           ELSE /\ selected' = NoFolder
                /\ result' = SelectErr(f)
                /\ pc' = "logout"
                /\ UNCHANGED <<move, by_folder>>
    /\ UNCHANGED <<mbox, uidnext, caps, faults, results, cmd, warnings, query,
                   folder_names, all_messages, fetch, messages, confirm>>

MoveFinish ==
    /\ pc = "m_group"
    /\ DOMAIN by_folder = {}
    /\ result' = Ok
    /\ pc' = "logout"
    /\ UNCHANGED <<mbox, uidnext, caps, faults, results, selected, cmd, log, warnings, query,
                   folder_names, all_messages, fetch, messages, confirm, by_folder, move>>

(***************************************************************************)
(* ImapSession::uid_move_or_fallback.                                      *)
(***************************************************************************)
\* The capability test inverted.
UseMove_Inverted == ~has_capability("MOVE")

\* if self.has_capability("MOVE")
UseMove == has_capability("MOVE")

\* The `?` dropped: a failed step is followed by the next one all the same.
FallbackNext_NoAbort(step, ok) ==
    CASE step = "UID MOVE" -> "return"
      [] step = "UID COPY" -> "mv_store"
      [] step = "UID STORE" -> "mv_expunge"
      [] step = "EXPUNGE" -> "return"

\* A failure after the copy swallowed: the function returns Ok.
FallbackNext_Swallow(step, ok) ==
    IF ~ok THEN (IF step = "UID COPY" THEN "abort" ELSE "return")
    ELSE CASE step = "UID MOVE" -> "return"
           [] step = "UID COPY" -> "mv_store"
           [] step = "UID STORE" -> "mv_expunge"
           [] step = "EXPUNGE" -> "return"

\* Where uid_move_or_fallback goes after a step: `?` returns the error, else
\* the next statement runs.
FallbackNext(step, ok) ==
    IF ~ok THEN "abort"
    ELSE CASE step = "UID MOVE" -> "return"
           [] step = "UID COPY" -> "mv_store"
           [] step = "UID STORE" -> "mv_expunge"
           [] step = "EXPUNGE" -> "return"

\* One step of uid_move_or_fallback on the chunk, and what search_and_move
\* does when it returns (next chunk, next group, or the error).
MoveStep(step, ok) ==
    LET nxt == FallbackNext(step, ok)
        cur == [move EXCEPT !.uid_set = Head(move.chunks),
                            !.start = IF pc = "m_chunk" THEN Len(log) ELSE move.start]
    IN CASE nxt = "abort" ->
              /\ move' = [cur EXCEPT !.status = "err"]
              /\ result' = MoveErr(move.folder, cmd.dest, StepContext(step))
              /\ pc' = "logout"
         [] nxt = "return" ->
              /\ move' = [cur EXCEPT !.status = "ok", !.chunks = Tail(move.chunks)]
              /\ pc' = IF Tail(move.chunks) = <<>> THEN "m_group" ELSE "m_chunk"
              /\ UNCHANGED result
         [] OTHER ->
              /\ move' = [cur EXCEPT !.status = "running"]
              /\ pc' = nxt
              /\ UNCHANGED result

\* The server accepts a command naming a destination only if it has the mailbox.
DestOk(ok) == ok => cmd.dest \in ServerFolders

UidMove ==
    /\ pc = "m_chunk"
    /\ UseMove
    /\ \E ok \in BOOLEAN :
        /\ DestOk(ok)
        /\ log' = Append(log, Entry("UID MOVE", Head(move.chunks), cmd.dest, "", ok))
        /\ IF ok
           THEN LET c == Copied(mbox, uidnext, selected, Head(move.chunks), cmd.dest)
                    left == {m \in mbox[selected] : m.uid \notin UidsOf(Head(move.chunks))}
                IN /\ mbox' = IF selected = cmd.dest
                              THEN [mbox EXCEPT ![cmd.dest] =
                                        left \cup (c.msgs \ mbox[selected])]
                              ELSE [mbox EXCEPT ![cmd.dest] = c.msgs, ![selected] = left]
                   /\ uidnext' = [uidnext EXCEPT ![cmd.dest] = c.next]
           ELSE UNCHANGED <<mbox, uidnext>>
        /\ MoveStep("UID MOVE", ok)
    /\ UNCHANGED <<caps, faults, results, selected, cmd, warnings, query,
                   folder_names, all_messages, fetch, messages, confirm, by_folder>>

UidCopy ==
    /\ pc = "m_chunk"
    /\ ~UseMove
    /\ \E ok \in BOOLEAN :
        /\ DestOk(ok)
        /\ log' = Append(log, Entry("UID COPY", Head(move.chunks), cmd.dest, "", ok))
        /\ IF ok
           THEN LET c == Copied(mbox, uidnext, selected, Head(move.chunks), cmd.dest)
                IN /\ mbox' = [mbox EXCEPT ![cmd.dest] = c.msgs]
                   /\ uidnext' = [uidnext EXCEPT ![cmd.dest] = c.next]
           ELSE UNCHANGED <<mbox, uidnext>>
        /\ MoveStep("UID COPY", ok)
    /\ UNCHANGED <<caps, faults, results, selected, cmd, warnings, query,
                   folder_names, all_messages, fetch, messages, confirm, by_folder>>

\* self.uid_store(uid_set, "+FLAGS (\\Deleted)")
UidStoreDeleted ==
    /\ pc = "mv_store"
    /\ \E ok \in BOOLEAN :
        /\ log' = Append(log, Entry("UID STORE", Head(move.chunks), NoFolder,
                                    "+FLAGS (\\Deleted)", ok))
        /\ mbox' = IF ok
                   THEN [mbox EXCEPT ![selected] =
                            {IF m.uid \in UidsOf(Head(move.chunks))
                             THEN [m EXCEPT !.flags = m.flags \cup {"\\Deleted"}]
                             ELSE m : m \in mbox[selected]}]
                   ELSE mbox
        /\ MoveStep("UID STORE", ok)
    /\ UNCHANGED <<uidnext, caps, faults, results, selected, cmd, warnings, query,
                   folder_names, all_messages, fetch, messages, confirm, by_folder>>

\* EXPUNGE removes every message of the selected mailbox flagged \Deleted.
Expunge ==
    /\ pc = "mv_expunge"
    /\ \E ok \in BOOLEAN :
        /\ log' = Append(log, Entry("EXPUNGE", <<>>, NoFolder, "", ok))
        /\ mbox' = IF ok
                   THEN [mbox EXCEPT ![selected] =
                            {m \in mbox[selected] : "\\Deleted" \notin m.flags}]
                   ELSE mbox
        /\ MoveStep("EXPUNGE", ok)
    /\ UNCHANGED <<uidnext, caps, faults, results, selected, cmd, warnings, query,
                   folder_names, all_messages, fetch, messages, confirm, by_folder>>

(***************************************************************************)
(* cmd_count.                                                              *)
(***************************************************************************)
\* let query = search::build_query(&criteria)?; then the LIST of an
\* all_folders count, or the SELECT of the one folder.
Count ==
    /\ pc = "count"
    /\ \E q \in {build_query(cmd.criteria)} :
          IF q.ok
          THEN /\ query' = q.val
               /\ pc' = IF cmd.criteria.all_folders THEN "c_list" ELSE "c_select"
               /\ folder_names' = IF cmd.criteria.all_folders THEN <<>>
                                   ELSE <<cmd.criteria.folder>>
               /\ UNCHANGED result
          ELSE /\ result' = Err(q.err)
               /\ pc' = "logout"
               /\ UNCHANGED <<query, folder_names>>
    /\ UNCHANGED <<mbox, uidnext, caps, faults, results, selected, cmd, log, warnings,
                   all_messages, fetch, messages, confirm, by_folder, move>>

CountList ==
    /\ pc = "c_list"
    /\ \E ok \in BOOLEAN :
        /\ log' = Append(log, Entry("LIST", <<>>, NoFolder, "*", ok))
        /\ IF ~ok
           THEN result' = Err("Failed to list folders") /\ pc' = "logout"
                /\ UNCHANGED folder_names
           ELSE LET names == SelectSeq(ServerList, LAMBDA n : ~folders_to_skip(n))
                IN /\ folder_names' = names
                   /\ IF names = <<>> THEN result' = Ok /\ pc' = "logout"
                      ELSE pc' = "c_select" /\ UNCHANGED result
    /\ UNCHANGED <<mbox, uidnext, caps, faults, results, selected, cmd, warnings, query,
                   all_messages, fetch, messages, confirm, by_folder, move>>

\* The folder is done: on to the next one, or Ok(()) after the last.
CountAdvance ==
    /\ folder_names' = Tail(folder_names)
    /\ IF Tail(folder_names) = <<>> THEN result' = Ok /\ pc' = "logout"
       ELSE pc' = "c_select" /\ UNCHANGED result

\* session.select(folder): in the loop an error skips the folder, for a
\* single folder it is returned.
CountSelect ==
    /\ pc = "c_select"
    /\ \E ok \in BOOLEAN :
        /\ ok => Head(folder_names) \in ServerFolders
        /\ log' = Append(log, Entry("SELECT", <<>>, Head(folder_names), "", ok))
        /\ IF ok
           THEN /\ selected' = Head(folder_names)
                /\ pc' = "c_search"
                /\ UNCHANGED <<result, folder_names, warnings>>
           ELSE /\ selected' = NoFolder
                /\ IF cmd.criteria.all_folders
                   THEN /\ warnings' = Append(warnings, [kind |-> "skipping folder",
                                                          folder |-> Head(folder_names)])
                        /\ CountAdvance
                   ELSE /\ result' = Err("Failed to select")
                        /\ pc' = "logout"
                        /\ UNCHANGED <<folder_names, warnings>>
    /\ UNCHANGED <<mbox, uidnext, caps, faults, results, cmd, query,
                   all_messages, fetch, messages, confirm, by_folder, move>>

\* session.uid_search(&query): the count of the folder.
CountSearch ==
    /\ pc = "c_search"
    /\ \E ok \in BOOLEAN :
        /\ log' = Append(log, Entry("UID SEARCH", <<>>, NoFolder, "", ok))
        /\ LET count == Cardinality(Matching(selected, query))
               line == [folder |-> Head(folder_names), count |-> count]
           IN IF cmd.criteria.all_folders
              THEN /\ results' = IF ok /\ count > 0 THEN Append(results, line) ELSE results
                   /\ warnings' = IF ok THEN warnings
                                  ELSE Append(warnings, [kind |-> "search failed",
                                                         folder |-> Head(folder_names)])
                   /\ CountAdvance
              ELSE IF ok
              THEN /\ results' = <<line>>
                   /\ CountAdvance
                   /\ UNCHANGED warnings
              ELSE /\ result' = Err("IMAP SEARCH failed")
                   /\ pc' = "logout"
                   /\ UNCHANGED <<results, folder_names, warnings>>
    /\ UNCHANGED <<mbox, uidnext, caps, faults, selected, cmd, query,
                   all_messages, fetch, messages, confirm, by_folder, move>>

(***************************************************************************)
(* main: let _ = session.logout(); result  (the answer is dropped)         *)
(***************************************************************************)
Logout ==
    /\ pc = "logout"
    /\ log' = Append(log, Entry("LOGOUT", <<>>, NoFolder, "", TRUE))
    /\ pc' = "done"
    /\ UNCHANGED <<mbox, uidnext, caps, faults, results, selected, cmd, warnings, result, query,
                   folder_names, all_messages, fetch, messages, confirm, by_folder, move>>

Next ==
    \/ Dispatch
    \/ Search
    \/ SearchList
    \/ SearchNextFolder
    \/ SearchAllFinish
    \/ Select
    \/ SortUnsupported
    \/ SortRejected
    \/ SortOk
    \/ UidSearch
    \/ UidFetch
    \/ EnsureDest
    \/ Confirm
    \/ SelectGroup
    \/ MoveFinish
    \/ UidMove
    \/ UidCopy
    \/ UidStoreDeleted
    \/ Expunge
    \/ Count
    \/ CountList
    \/ CountSelect
    \/ CountSearch
    \/ Logout

Spec == Init /\ [][Next]_vars

(***************************************************************************)
(* Properties.                                                             *)
(***************************************************************************)
MutatingCmds == {"UID MOVE", "UID COPY", "UID STORE", "EXPUNGE"}

RECURSIVE TakeMutating(_)
TakeMutating(entries) ==
    IF entries = <<>> \/ Head(entries).cmd \notin MutatingCmds THEN <<>>
    ELSE <<Head(entries)>> \o TakeMutating(Tail(entries))

\* The commands the latest call of uid_move_or_fallback has sent.
Issued == TakeMutating(SubSeq(log, move.start + 1, Len(log)))

Sent(e) == [cmd |-> e.cmd, set |-> e.set, mailbox |-> e.mailbox, text |-> e.text]

FallbackPlan ==
    <<[cmd |-> "UID COPY", set |-> move.uid_set, mailbox |-> cmd.dest, text |-> ""],
      [cmd |-> "UID STORE", set |-> move.uid_set, mailbox |-> NoFolder,
       text |-> "+FLAGS (\\Deleted)"],
      [cmd |-> "EXPUNGE", set |-> <<>>, mailbox |-> NoFolder, text |-> ""]>>

\* C1: without MOVE, a call of uid_move_or_fallback sends UID COPY to the
\* destination, UID STORE +FLAGS (\Deleted) on the same UID set and EXPUNGE, in
\* that order and nothing else; only its last command can have failed, a
\* failure ends the call with an error, and the call succeeds only after all
\* three succeeded.
C1_FallbackSequence ==
    ("MOVE" \notin caps /\ move.status # "idle") =>
        /\ Len(Issued) \in 1..3
        /\ \A i \in 1..Len(Issued) : Sent(Issued[i]) = FallbackPlan[i]
        /\ \A i \in 1..(Len(Issued) - 1) : Issued[i].ok
        /\ move.status = "running" => Issued[Len(Issued)].ok /\ Len(Issued) < 3
        /\ move.status = "ok" => Issued[Len(Issued)].ok /\ Len(Issued) = 3
        /\ move.status = "err" => ~Issued[Len(Issued)].ok /\ result.status = "err"
                                  /\ pc \in {"logout", "done"}

\* COPY and STORE were sent in order, STORE failed, and EXPUNGE was never sent.
C1_Witness ==
    /\ "MOVE" \notin caps
    /\ move.status = "err"
    /\ pc = "done"
    /\ Len(Issued) = 2
    /\ Issued[1].ok

\* C2: with MOVE, a call of uid_move_or_fallback sends one UID MOVE and nothing
\* else; the session never sees COPY, STORE or EXPUNGE; a rejected MOVE ends the
\* command with an error and is followed by nothing but LOGOUT.
C2_MoveOnly ==
    "MOVE" \in caps =>
        /\ \A i \in 1..Len(log) : log[i].cmd \notin {"UID COPY", "UID STORE", "EXPUNGE"}
        /\ \A i \in 1..Len(log) :
              (log[i].cmd = "UID MOVE" /\ ~log[i].ok) =>
                  /\ result.status = "err"
                  /\ pc \in {"logout", "done"}
                  /\ \A j \in (i + 1)..Len(log) : log[j].cmd = "LOGOUT"
        /\ move.status # "idle" =>
              /\ move.status \in {"ok", "err"}
              /\ Issued = <<Entry("UID MOVE", move.uid_set, cmd.dest, "", move.status = "ok")>>

\* The server rejected the UID MOVE and the command has returned.
C2_Witness ==
    /\ "MOVE" \in caps
    /\ move.status = "err"
    /\ pc = "done"
    /\ result.status = "err"

\* C3: in the fallback, once COPY has succeeded and STORE or EXPUNGE fails, the
\* call ends with an error, nothing but LOGOUT follows the failed command (no
\* undo), and every message of the selected mailbox named by the UID set is in
\* the source mailbox and has its copy in the destination.
C3_CopyStaysOnFailure ==
    (/\ "MOVE" \notin caps
     /\ move.status # "idle"
     /\ Len(Issued) >= 2
     /\ Issued[1].cmd = "UID COPY" /\ Issued[1].ok
     /\ \E i \in 2..Len(Issued) : ~Issued[i].ok) =>
        /\ move.status = "err"
        /\ result.status = "err"
        /\ ~Issued[Len(Issued)].ok
        /\ \A j \in (move.start + Len(Issued) + 1)..Len(log) : log[j].cmd = "LOGOUT"
        /\ \A u \in UidsOf(move.uid_set) \cap {x.uid : x \in InitMbox[move.folder]} :
              \E m \in mbox[move.folder] :
                  /\ m.uid = u
                  /\ \E c \in mbox[cmd.dest] :
                        c.id = m.id /\ (move.folder = cmd.dest => c.uid # m.uid)

\* COPY and STORE succeeded, EXPUNGE failed: flagged in the source, copied to
\* the destination.
C3_Witness ==
    /\ "MOVE" \notin caps
    /\ move.status = "err"
    /\ Len(Issued) = 3
    /\ Issued[1].ok /\ Issued[2].ok /\ ~Issued[3].ok
    /\ move.folder # cmd.dest
    /\ pc = "done"

NoMutation == \A i \in 1..Len(log) : log[i].cmd \notin MutatingCmds

ServerUntouched == mbox = InitMbox /\ uidnext = [f \in ServerFolders |-> MaxUidIn(InitMbox[f]) + 1]

ListEntries == SelectSeq(log, LAMBDA e : e.cmd = "LIST")

IsMoveCmd == cmd.name \in {"move", "delete"}

\* search has returned to its caller.
SearchDone ==
    /\ cmd.name \in {"search", "move", "delete"}
    /\ pc \in {"logout", "done", "m_ensure", "m_confirm", "m_group", "m_chunk",
               "mv_store", "mv_expunge"}

\* search has just returned to its caller (the rows it returned do not change
\* afterwards).
SearchReturned ==
    \/ cmd.name \in {"search", "move", "delete"} /\ pc \in {"logout", "m_ensure"}
    \/ cmd.name = "search" /\ pc = "done"

\* C4 as claimed: a move or delete to a mailbox the server does not list ends
\* with the "does not exist" error, sends no MOVE/COPY/STORE/EXPUNGE and leaves
\* every message where it was.
C4_AsClaimed ==
    (IsMoveCmd /\ cmd.dest \notin ServerFolders /\ pc = "done") =>
        /\ result = Err("does not exist")
        /\ NoMutation
        /\ ServerUntouched

\* C4 amended: a move or delete to a mailbox the server does not list never
\* sends MOVE/COPY/STORE/EXPUNGE and leaves every message where it was; it ends
\* with an error once the search returned at least one row and dry_run is not
\* set, and that error is "does not exist" when the destination LIST succeeded.
\* (An empty search result and a dry run return success, unchecked.)
C4_MissingDestination ==
    (IsMoveCmd /\ cmd.dest \notin ServerFolders) =>
        /\ NoMutation
        /\ ServerUntouched
        /\ (pc = "done" /\ IsSome(messages) /\ Unwrap(messages) # <<>> /\ ~cmd.dry_run) =>
              /\ result.status = "err"
              /\ Len(ListEntries) = 2
              /\ ListEntries[2].ok => result = Err("does not exist")
        /\ (pc = "done" /\ IsSome(messages)
              /\ (Unwrap(messages) = <<>> \/ cmd.dry_run)) => result = Ok

\* Rows were found, the destination is missing, the command failed on it.
C4_Witness ==
    /\ cmd.name = "move"
    /\ cmd.dest \notin ServerFolders
    /\ pc = "done"
    /\ IsSome(messages) /\ Len(Unwrap(messages)) >= 2
    /\ result = Err("does not exist")

EarlyReturn ==
    \/ IsSome(messages) /\ Unwrap(messages) = <<>>
    \/ cmd.dry_run
    \/ confirm = "no"

\* C5: search_and_move sends no MOVE/COPY/STORE/EXPUNGE and leaves every
\* mailbox as it was when the search result is empty, when dry_run is set, or
\* when the confirmation is declined; in each of these returns (the search
\* having returned its rows) the result is success.
C5_EarlyReturnsChangeNothing ==
    (IsMoveCmd /\ EarlyReturn) =>
        /\ NoMutation
        /\ ServerUntouched
        /\ pc \notin {"m_group", "m_chunk", "mv_store", "mv_expunge"}
        /\ (pc = "done" /\ IsSome(messages)) => result = Ok

\* Rows were found, the user was asked and declined.
C5_Witness ==
    /\ cmd.name = "move"
    /\ ~cmd.dry_run /\ ~cmd.yes
    /\ confirm = "no"
    /\ IsSome(messages) /\ Unwrap(messages) # <<>>
    /\ pc = "done"

\* The mailboxes an all_folders search visits, and those it gave up on.
Visited == {n \in ServerFolders : ~folders_to_skip(n)}
Skipped == {warnings[i].folder : i \in {j \in 1..Len(warnings) :
                                           warnings[j].kind = "skipping folder"}}

\* The rows of the mailboxes visited without a failure: every matching message
\* of the mailbox the Search Executor selected for the list entry.
ExpectedRows ==
    UNION {LET g == sanitize(f)
           IN {[uid |-> m.uid, folder |-> Some(g), timestamp |-> m.ts] :
                  m \in {x \in InitMbox[g] : Matches(query, x)}} :
           f \in Visited \ Skipped}

\* The mailbox selected when the i-th command of the log was sent.
SelectedAt(i) ==
    LET js == {j \in 1..(i - 1) : log[j].cmd = "SELECT"}
    IN IF js = {} THEN NoFolder
       ELSE LET j == CHOOSE k \in js : \A l \in js : l <= k
            IN IF log[j].ok THEN log[j].mailbox ELSE NoFolder

\* A line of the protocol: "* SORT" followed by identifiers, each a run of
\* digits after one space.
WellFormedLine(l) ==
    /\ Len(l) >= 6
    /\ SubSeq(l, 1, 6) = <<"*", " ", "S", "O", "R", "T">>
    /\ \A i \in 7..Len(l) :
          \/ IsDigit(l[i])
          \/ l[i] = " " /\ i < Len(l) /\ IsDigit(l[i + 1])
    /\ Len(l) > 6 => l[7] = " "

WellFormed(data) == \A i \in 1..Len(data) : WellFormedLine(data[i])

\* Mailboxes whose UID SORT was answered with a malformed response.
Garbled ==
    {SelectedAt(i) : i \in {j \in 1..Len(log) :
        log[j].cmd = "UID SORT" /\ log[j].ok /\ ~WellFormed(log[j].data)}}

\* The identifiers of mailbox g that were asked for and came without a record.
LostIn(g) ==
    UNION {UidsOf(log[i].set) \ SeqToSet(log[i].data) :
              i \in {j \in 1..Len(log) :
                        log[j].cmd = "UID FETCH" /\ log[j].ok /\ SelectedAt(j) = g}}

\* The rows of the mailboxes in which every step succeeded with a well-formed
\* answer, less the messages whose record the server did not send.
CleanRows ==
    LET garbled == Garbled
    IN UNION {LET g == sanitize(f)
                  lost == LostIn(g)
              IN {[uid |-> m.uid, folder |-> Some(g), timestamp |-> m.ts] :
                     m \in {x \in InitMbox[g] : x.uid \notin lost /\ Matches(query, x)}} :
              f \in {h \in Visited \ Skipped : sanitize(h) \notin garbled}}

Capped(n) == IF IsSome(cmd.criteria.limit) THEN Min(Unwrap(cmd.criteria.limit), n) ELSE n

\* C6: in an all_folders search whose LIST succeeded, failures of SELECT,
\* SORT/SEARCH or FETCH in some mailboxes do not fail the search: it returns
\* success, its rows are rows of the visited mailboxes that did not fail, and
\* every row of a mailbox whose steps all succeeded is among them, up to the
\* global limit.
C6_FaultIsolation ==
    (cmd.criteria.all_folders /\ SearchReturned /\ log # <<>> /\ log[1].ok) =>
        /\ IsSome(messages)
        /\ cmd.name = "search" => result = Ok
        /\ LET rows == Unwrap(messages)
               expected == ExpectedRows
               clean == CleanRows
           IN /\ SeqToSet(rows) \subseteq expected
              /\ Cardinality(SeqToSet(rows)) = Len(rows)
              /\ Len(rows) <= Capped(Cardinality(expected))
              /\ Len(rows) >= Capped(Cardinality(clean))
              /\ cmd.criteria.limit = None => clean \subseteq SeqToSet(rows)

\* One mailbox failed, the search succeeded with rows of another.
C6_Witness ==
    /\ cmd.name = "search"
    /\ cmd.criteria.all_folders
    /\ pc = "done"
    /\ INBOX \in Skipped
    /\ result = Ok
    /\ Unwrap(messages) # <<>>

\* C7 as claimed: an all_folders search never selects a mailbox whose name
\* matches the denylist, and no row it returns carries such a name.
C7_DenylistNeverSelected ==
    cmd.criteria.all_folders =>
        /\ \A i \in 1..Len(log) :
              log[i].cmd = "SELECT" => ~folders_to_skip(log[i].mailbox)
        /\ IsSome(messages) =>
              \A i \in 1..Len(Unwrap(messages)) :
                  IsSome(Unwrap(messages)[i].folder) =>
                      ~folders_to_skip(Unwrap(Unwrap(messages)[i].folder))

\* C8: in an all_folders search every mailbox is fetched without a limit (all
\* the identifiers of a well-formed answer), and the result is ordered by
\* non-increasing timestamp and holds the N rows with the largest timestamps of
\* the rows combined from all the mailboxes searched.
C8_GlobalLimit ==
    cmd.criteria.all_folders =>
        /\ pc = "f_fetch" =>
              /\ fetch.limit = None
              /\ selected \notin Garbled =>
                    SeqToSet(fetch.ordered_uids) = {m.uid : m \in Matching(selected, query)}
        /\ (SearchReturned /\ IsSome(messages)) =>
              LET rows == Unwrap(messages) IN
              /\ IsSortedDesc(rows)
              /\ SeqToSet(all_messages) \subseteq ExpectedRows
              /\ CleanRows \subseteq SeqToSet(all_messages)
              /\ SeqToSet(rows) \subseteq SeqToSet(all_messages)
              /\ Cardinality(SeqToSet(rows)) = Len(rows)
              /\ Len(rows) = Capped(Len(all_messages))
              /\ \A r \in SeqToSet(all_messages) \ SeqToSet(rows) :
                    \A i \in 1..Len(rows) : r.timestamp <= rows[i].timestamp

\* The limit cut the combined rows of two mailboxes.
C8_Witness ==
    /\ cmd.criteria.all_folders
    /\ cmd.criteria.limit = Some(2)
    /\ pc = "done"
    /\ IsSome(messages)
    /\ Len(Unwrap(messages)) = 2
    /\ Cardinality(ExpectedRows) > 2
    /\ Unwrap(messages)[1].folder # Unwrap(messages)[2].folder

\* C9: with a limit N, search returns at most N rows, in every mode.
C9_AtMostLimit ==
    (IsSome(messages) /\ IsSome(cmd.criteria.limit)) =>
        Len(Unwrap(messages)) <= Unwrap(cmd.criteria.limit)

\* Single mailbox, the SEARCH fallback: three messages match, one is returned.
C9_Witness ==
    /\ ~cmd.criteria.all_folders
    /\ "SORT" \notin caps
    /\ cmd.criteria.limit = Some(1)
    /\ IsSome(messages)
    /\ Len(Unwrap(messages)) = 1
    /\ Cardinality(Matching(cmd.criteria.folder, query)) >= 2
    /\ cmd.name = "search"
    /\ pc = "done"

\* C10: without SORT no UID SORT is ever sent and no SORT warning is printed;
\* the identifiers come from a successful UID SEARCH; the rows returned are in
\* non-increasing timestamp order; and the search fails only if a command it
\* sent failed, its mailbox is not listed or its criteria are rejected.
C10_SearchFallback ==
    "SORT" \notin caps =>
        /\ \A i \in 1..Len(log) : log[i].cmd # "UID SORT"
        /\ \A i \in 1..Len(warnings) : warnings[i].kind # "SORT failed"
        /\ pc = "f_fetch" =>
              /\ ~fetch.pre_sorted
              /\ \E i \in 1..Len(log) :
                    /\ log[i].cmd = "UID SEARCH" /\ log[i].ok
                    /\ \A j \in (i + 1)..Len(log) : log[j].cmd = "UID FETCH"
        /\ (SearchDone /\ IsSome(messages)) => IsSortedDesc(Unwrap(messages))
        /\ (SearchDone /\ ~IsSome(messages)) =>
              \/ \E i \in 1..Len(log) : ~log[i].ok
              \/ ~cmd.criteria.all_folders /\ cmd.criteria.folder \notin ServerFolders
              \/ ~build_query(cmd.criteria).ok

\* Single mailbox without SORT: the rows came back, newest first.
C10_Witness ==
    /\ "SORT" \notin caps
    /\ ~cmd.criteria.all_folders
    /\ cmd.name = "search"
    /\ pc = "done"
    /\ result = Ok
    /\ Len(Unwrap(messages)) >= 3
    /\ Unwrap(messages)[1].timestamp > Unwrap(messages)[3].timestamp

FailedEntries == {i \in 1..Len(log) : ~log[i].ok}

\* C11: with SORT advertised, a rejected UID SORT is followed by UID SEARCH in
\* the same mailbox and by a warning, never by an error: a single-mailbox search
\* in which nothing but UID SORT was rejected returns the matching rows, and an
\* all_folders search skips no mailbox on account of it.
C11_RejectedSortFallsBack ==
    /\ \A i \in 1..Len(log) :
          (log[i].cmd = "UID SORT" /\ ~log[i].ok) =>
              /\ "SORT" \in caps
              /\ i = Len(log) => pc = "f_search"
              /\ i < Len(log) => log[i + 1].cmd = "UID SEARCH"
              /\ \E w \in 1..Len(warnings) : warnings[w].kind = "SORT failed"
    /\ (/\ SearchReturned
        /\ FailedEntries # {}
        /\ \A i \in FailedEntries : log[i].cmd = "UID SORT"
        /\ Garbled = {}) =>
          IF cmd.criteria.all_folders
          THEN Skipped = {} /\ IsSome(messages)
          ELSE \/ cmd.criteria.folder \notin ServerFolders
               \/ /\ IsSome(messages)
                  /\ cmd.name = "search" => result = Ok
                  /\ {Unwrap(messages)[i].uid : i \in 1..Len(Unwrap(messages))} \subseteq
                        {m.uid : m \in {x \in InitMbox[sanitize(cmd.criteria.folder)] :
                                           Matches(query, x)}}
                  /\ Len(Unwrap(messages)) =
                        Capped(Cardinality({m \in InitMbox[sanitize(cmd.criteria.folder)] :
                            Matches(query, m)
                            /\ m.uid \notin LostIn(sanitize(cmd.criteria.folder))}))

\* SORT was advertised and rejected; the search went on and returned rows.
C11_Witness ==
    /\ "SORT" \in caps
    /\ cmd.name = "search"
    /\ ~cmd.criteria.all_folders
    /\ pc = "done"
    /\ \E i \in 1..Len(log) : log[i].cmd = "UID SORT" /\ ~log[i].ok
    /\ result = Ok
    /\ Len(Unwrap(messages)) >= 2

\* C12 as claimed: after a malformed answer to UID SORT the mailbox's search
\* fails: no UID SEARCH or UID FETCH follows it, a single-mailbox search
\* returns an error and no rows, an all_folders search skips the mailbox.
C12_MalformedSortFails ==
    \A i \in 1..Len(log) :
        (log[i].cmd = "UID SORT" /\ log[i].ok /\ ~WellFormed(log[i].data)) =>
            /\ i = Len(log) => pc \notin {"f_fetch", "f_search"}
            /\ i < Len(log) => log[i + 1].cmd \notin {"UID FETCH", "UID SEARCH"}
            /\ (~cmd.criteria.all_folders /\ SearchDone) =>
                  ~IsSome(messages) /\ result.status = "err"
            /\ (cmd.criteria.all_folders /\ pc # "f_sort") =>
                  SelectedAt(i) \in {sanitize(f) : f \in Skipped}

\* The date grammar: YYYY-MM-DD with month 1..12 and day 1..31, or a count
\* followed by one of d, w, m, y.
ValidDateExpr(s) ==
    \/ /\ Len(s) = 10
       /\ \A i \in {1, 2, 3, 4, 6, 7, 9, 10} : IsDigit(s[i])
       /\ s[5] = "-" /\ s[8] = "-"
       /\ DigitVal(s[6]) * 10 + DigitVal(s[7]) \in 1..12
       /\ DigitVal(s[9]) * 10 + DigitVal(s[10]) \in 1..31
    \/ /\ Len(s) \in 2..10
       /\ s[Len(s)] \in {"d", "w", "m", "y"}
       /\ \A i \in 1..(Len(s) - 1) : IsDigit(s[i])

\* The size grammar: digits, then optionally one of K, k, M, m.
ValidSizeExpr(s) ==
    LET t == trim(s)
        n == IF t # <<>> /\ t[Len(t)] \in {"K", "k", "M", "m"}
             THEN trim(SubSeq(t, 1, Len(t) - 1)) ELSE t
    IN n # <<>> /\ Len(n) <= 9 /\ \A i \in 1..Len(n) : IsDigit(n[i])

InvalidCriteria ==
    \/ IsSome(cmd.criteria.since) /\ ~ValidDateExpr(Unwrap(cmd.criteria.since))
    \/ IsSome(cmd.criteria.before) /\ ~ValidDateExpr(Unwrap(cmd.criteria.before))
    \/ IsSome(cmd.criteria.larger) /\ ~ValidSizeExpr(Unwrap(cmd.criteria.larger))

ValidationErrors ==
    {"Invalid date (expected YYYY-MM-DD or relative)", "Invalid date (expected YYYY-MM-DD)",
     "Invalid size ''", "Invalid size", "Size is too large", "ParseIntError"}

\* C13: with an invalid date or size expression in the criteria, search and
\* count send no command at all (the session sees at most the LOGOUT of main)
\* and end with a validation error.
C13_ValidationBeforeCommands ==
    (cmd.name \in {"search", "count"} /\ InvalidCriteria) =>
        /\ \A i \in 1..Len(log) : log[i].cmd = "LOGOUT"
        /\ pc \in {"search", "count", "logout", "done"}
        /\ pc \in {"logout", "done"} =>
              result.status = "err" /\ result.err \in ValidationErrors

\* A search with a month 13 in --since has returned its error; nothing was sent.
C13_Witness ==
    /\ cmd.name = "search"
    /\ IsSome(cmd.criteria.since) /\ ~ValidDateExpr(Unwrap(cmd.criteria.since))
    /\ pc = "done"
    /\ result.status = "err"
    /\ log = <<>>

\* A move or delete has aborted while moving: a group's SELECT or a step of
\* uid_move_or_fallback failed.
MoveAborted ==
    /\ IsMoveCmd
    /\ pc \in {"logout", "done"}
    /\ result.status = "err"
    /\ result.err \in {"Failed to move messages", "Failed to select"}

\* The errors an abort that changed nothing returns: the SELECT of a group, or
\* the first command of uid_move_or_fallback on a chunk, was rejected.
FirstStepError ==
    \/ result.err = "Failed to select"
    \/ /\ result.err = "Failed to move messages"
       /\ result.cause \in {"UID MOVE failed", "UID COPY failed"}

\* C14: the error of an aborted move or delete tells whether anything was
\* changed: an error that an abort without any change returns is never
\* returned once a mailbox has changed.
C14_ErrorTellsWhetherChanged ==
    (MoveAborted /\ FirstStepError) => ServerUntouched

RECURSIVE IsSubsequence(_, _)
IsSubsequence(a, b) ==
    IF a = <<>> THEN TRUE
    ELSE IF b = <<>> THEN FALSE
    ELSE IF Head(a) = Head(b) THEN IsSubsequence(Tail(a), Tail(b))
    ELSE IsSubsequence(a, Tail(b))

UidsOfRows(rows) == [k \in 1..Len(rows) |-> rows[k].uid]

\* The rows fetch_messages returned for mailbox g.
RowsOf(g) ==
    IF cmd.criteria.all_folders
    THEN SelectSeq(all_messages, LAMBDA r : r.folder = Some(g))
    ELSE IF IsSome(messages) THEN Unwrap(messages) ELSE <<>>

\* The limit fetch_messages was called with.
FetchLimit == IF cmd.criteria.all_folders THEN None ELSE cmd.criteria.limit

\* The commands sent for the mailbox selected at entry i, after entry i.
FetchesAfter(i) ==
    {j \in (i + 1)..Len(log) : log[j].cmd = "UID FETCH" /\ SelectedAt(j) = SelectedAt(i)}

\* C15: with an answered UID SORT, the rows fetch_messages returns for the
\* mailbox follow the server's identifier list: their UIDs are a subsequence
\* of the list cut to the limit, and exactly the identifiers whose record
\* UID FETCH did not return are left out, without an error or a warning.
C15_ServerOrderKept ==
    SearchReturned =>
    \A i \in 1..Len(log) :
        (/\ log[i].cmd = "UID SORT" /\ log[i].ok
         /\ \A j \in FetchesAfter(i) : log[j].ok
         /\ parse_sort_response(log[i].data).ok) =>
            LET g == SelectedAt(i)
                ids == Truncate(parse_sort_response(log[i].data).uids, FetchLimit)
                rows == RowsOf(g)
            IN /\ IsSubsequence(UidsOfRows(rows), ids)
               /\ SeqToSet(UidsOfRows(rows)) = SeqToSet(ids) \ LostIn(g)
               /\ \A f \in Skipped : sanitize(f) # g
               /\ ~cmd.criteria.all_folders =>
                     IsSome(messages) /\ (cmd.name = "search" => result = Ok)

\* A single-mailbox search over SORT returned two rows in the server's order
\* and left out the identifier whose record was not sent.
C15_Witness ==
    /\ cmd.name = "search" /\ ~cmd.criteria.all_folders
    /\ pc = "logout" /\ result = Ok
    /\ fetch.pre_sorted
    /\ Len(fetch.ordered_uids) = InboxSize
    /\ LostIn(selected) # {}
    /\ IsSome(messages) /\ Len(Unwrap(messages)) = InboxSize - 1
    /\ UidsOfRows(Unwrap(messages)) # SortAsc(SeqToSet(UidsOfRows(Unwrap(messages))))

\* The matching messages of mailbox g whose record UID FETCH returned.
FetchedIn(g) ==
    LET lost == LostIn(g)
    IN {m \in InitMbox[g] : m.uid \notin lost /\ Matches(query, m)}

CapTo(limit, n) == IF IsSome(limit) THEN Min(Unwrap(limit), n) ELSE n

\* C16: after an answered UID SEARCH the rows fetch_messages returns for the
\* mailbox are in non-increasing timestamp order (0 for an unparsable date),
\* and the limit is applied after the ordering: the rows are min(limit, count)
\* of the fetched messages and no message left out has a larger timestamp
\* than a row that was kept.
C16_NewestFirstThenLimit ==
    SearchReturned =>
    \A i \in 1..Len(log) :
        (/\ log[i].cmd = "UID SEARCH" /\ log[i].ok
         /\ \A j \in FetchesAfter(i) : log[j].ok) =>
            LET g == SelectedAt(i)
                rows == RowsOf(g)
                kept == SeqToSet(UidsOfRows(rows))
                fetched == FetchedIn(g)
            IN /\ IsSortedDesc(rows)
               /\ \A k \in 1..Len(rows) :
                     \E m \in fetched : m.uid = rows[k].uid /\ m.ts = rows[k].timestamp
               /\ Cardinality(kept) = Len(rows)
               /\ Len(rows) = CapTo(FetchLimit, Cardinality(fetched))
               /\ \A m \in fetched :
                     m.uid \notin kept => \A k \in 1..Len(rows) : rows[k].timestamp >= m.ts
               /\ ~cmd.criteria.all_folders =>
                     IsSome(messages) /\ (cmd.name = "search" => result = Ok)

\* A search of INBOX without SORT and with limit 2 returned the two dated
\* messages and left out the one whose date is unparsable.
C16_Witness ==
    /\ cmd.name = "search" /\ ~cmd.criteria.all_folders
    /\ cmd.criteria.limit = Some(2)
    /\ pc = "logout" /\ result = Ok
    /\ ~fetch.pre_sorted
    /\ \E r \in fetch.by_uid : r.timestamp = 0
    /\ Cardinality(fetch.by_uid) = 3
    /\ IsSome(messages) /\ Len(Unwrap(messages)) = 2
    /\ \A k \in 1..2 : Unwrap(messages)[k].timestamp > 0

\* C17: once the last chunk of a mailbox is answered, the records collected
\* determine the row sequence fetch_messages returns: whatever order they
\* were inserted in and the map yields them in, the rows are the same.
C17_OrderIndependent ==
    (/\ pc # "f_fetch" /\ fetch.chunks = <<>> /\ fetch.by_uid # {}
     /\ log # <<>> /\ log[Len(log)].cmd = "UID FETCH" /\ log[Len(log)].ok) =>
        \A a, b \in Assembled(fetch, fetch.by_uid) : a = b

\* C18: a single-mailbox search naming a mailbox the server does not list
\* never sends SELECT, UID SORT, UID SEARCH or UID FETCH, and it fails; once
\* the server has answered the LIST, the error is 'does not exist'.
C18_MissingMailboxFailsEarly ==
    (/\ cmd.name \in {"search", "move", "delete"}
     /\ ~cmd.criteria.all_folders
     /\ cmd.criteria.folder \notin SeqToSet(ServerList)) =>
        /\ \A i \in 1..Len(log) :
              log[i].cmd \notin {"SELECT", "UID SORT", "UID SEARCH", "UID FETCH"}
        /\ SearchReturned =>
              /\ ~IsSome(messages)
              /\ result.status = "err"
              /\ (ListEntries # <<>> /\ ListEntries[1].ok) => result.err = "does not exist"

\* A search of a mailbox the server does not have has failed after one LIST.
C18_Witness ==
    /\ cmd.name = "search" /\ ~cmd.criteria.all_folders
    /\ cmd.criteria.folder \notin SeqToSet(ServerList)
    /\ pc = "done"
    /\ result = Err("does not exist")
    /\ Len(log) = 1 /\ log[1].cmd = "LIST" /\ log[1].ok

\* C19: every row a search over all mailboxes returns is labelled with the
\* mailbox that was selected when its record was fetched (and is a message of
\* that mailbox); every row of a single-mailbox search has no label.
C19_RowLabels ==
    (SearchReturned /\ IsSome(messages)) =>
        \A k \in 1..Len(Unwrap(messages)) :
            LET row == Unwrap(messages)[k]
            IN IF cmd.criteria.all_folders
               THEN /\ IsSome(row.folder)
                    /\ Unwrap(row.folder) \in ServerFolders
                    /\ \E m \in InitMbox[Unwrap(row.folder)] :
                          m.uid = row.uid /\ m.ts = row.timestamp
                    /\ \E j \in 1..Len(log) :
                          /\ log[j].cmd = "UID FETCH" /\ log[j].ok
                          /\ SelectedAt(j) = Unwrap(row.folder)
                          /\ row.uid \in SeqToSet(log[j].data)
               ELSE row.folder = None

\* A search over all mailboxes returned rows of two different mailboxes.
C19_Witness ==
    /\ cmd.name = "search" /\ cmd.criteria.all_folders
    /\ pc = "logout" /\ result = Ok
    /\ IsSome(messages)
    /\ \E a, b \in 1..Len(Unwrap(messages)) :
          /\ Unwrap(messages)[a].folder = Some(INBOX)
          /\ Unwrap(messages)[b].folder = Some(Work)

(***************************************************************************)
(* build_uid_set on its own: the identifiers are drawn from bounded sets   *)
(* (unsorted, with duplicates), and from lists long enough to need more    *)
(* than one chunk.                                                         *)
(***************************************************************************)
MaxUid == 4       \* the short lists draw their UIDs from 1..MaxUid
MaxUids == 3      \* and hold at most MaxUids of them
LongLen == 400    \* the length of the long lists

ShortUidLists == UNION {[1..n -> 1..MaxUid] : n \in 0..MaxUids}

\* Scattered ten-digit UIDs, no two adjacent, some given twice; and
\* ten-digit UIDs in adjacent pairs, some pairs given twice.
LongUidLists ==
    {[i \in 1..LongLen |-> 1000000000 + 2 * ((i * 7) % 370)],
     [i \in 1..LongLen |-> 1000000000 + 3 * (((i \div 2) * 7) % 190) + (i % 2)]}

InitEnc ==
    /\ mbox = InitMbox
    /\ uidnext = [f \in ServerFolders |-> MaxUidIn(InitMbox[f]) + 1]
    /\ caps = {}
    /\ faults = "none"
    /\ results = <<>>
    /\ selected = NoFolder
    /\ pc = "uids"
    /\ cmd = [name |-> "none", criteria |-> [folder |-> NoFolder, all_folders |-> FALSE,
                                             subject |-> None, limit |-> None,
                                             from |-> None, since |-> None,
                                             before |-> None, larger |-> None],
              dest |-> NoFolder, yes |-> FALSE, dry_run |-> FALSE]
    /\ log = <<>>
    /\ warnings = <<>>
    /\ result = NoResult
    /\ query = <<>>
    /\ folder_names = <<>>
    /\ all_messages = <<>>
    /\ \E uids \in ShortUidLists \cup LongUidLists :
          fetch = [NoFetch EXCEPT !.ordered_uids = uids]
    /\ messages = None
    /\ confirm = "unasked"
    /\ by_folder = <<>>
    /\ move = NoMove

\* let uid_chunks = build_uid_set(&ordered_uids);
BuildUidSet ==
    /\ pc = "uids"
    /\ fetch' = [fetch EXCEPT !.chunks = build_uid_set(fetch.ordered_uids)]
    /\ pc' = "chunks"
    /\ UNCHANGED <<mbox, uidnext, caps, faults, results, selected, cmd, log, warnings, result,
                   query, folder_names, all_messages, messages, confirm, by_folder, move>>

NextEnc == BuildUidSet

SpecEnc == InitEnc /\ [][NextEnc]_vars

\* Every entry of every chunk string, as the server reads it:
\* <<chunk, position, first, last>>.
EntriesRead(chunks) ==
    UNION {{<<i, e[1], e[2], e[3]>> : e \in ReadUidSet(ChunkText(chunks[i]))} :
              i \in 1..Len(chunks)}

\* C20: whatever the input list (any order, duplicates), the chunk strings of
\* build_uid_set read back as exactly the set of distinct input UIDs, and each
\* of these UIDs is covered by one entry of one chunk only.
C20_UidSetRoundTrip ==
    pc = "chunks" =>
        LET entries == EntriesRead(fetch.chunks)
            given == SeqToSet(fetch.ordered_uids)
        IN /\ UNION {e[3]..e[4] : e \in entries} = given
           /\ \A u \in given :
                 Cardinality({e \in entries : e[3] <= u /\ u <= e[4]}) = 1

\* A long list, out of order and with repeats, was encoded into several chunks.
C20_Witness ==
    /\ pc = "chunks"
    /\ Len(fetch.chunks) >= 2
    /\ Len(fetch.ordered_uids) > Cardinality(SeqToSet(fetch.ordered_uids))
    /\ \E i \in 1..(Len(fetch.ordered_uids) - 1) :
          fetch.ordered_uids[i] > fetch.ordered_uids[i + 1]

\* C21: every chunk of build_uid_set holds at least one entry and its string
\* is between 1 and MAX_UID_SET_LENGTH characters long; an empty list gives
\* no chunk at all (never one empty chunk).
C21_ChunksWithinLimit ==
    pc = "chunks" =>
        /\ \A i \in 1..Len(fetch.chunks) :
              \E text \in {ChunkText(fetch.chunks[i])} :
                 /\ fetch.chunks[i] # <<>>
                 /\ text # <<>>
                 /\ Len(text) <= MAX_UID_SET_LENGTH
        /\ fetch.ordered_uids = <<>> => fetch.chunks = <<>>

\* A chunk was closed because the next entry did not fit any more.
C21_Witness ==
    /\ pc = "chunks"
    /\ Len(fetch.chunks) >= 2
    /\ ChunkLen(fetch.chunks[1]) + 1 + PartLen(fetch.chunks[2][1]) > MAX_UID_SET_LENGTH

\* The empty list was encoded.
C21_WitnessEmpty ==
    /\ pc = "chunks"
    /\ fetch.ordered_uids = <<>>

\* C22: the entries of build_uid_set, read in the order of the chunks, are the
\* maximal runs of consecutive UIDs of the input in ascending order: each entry
\* is a run of given UIDs that cannot be extended on either side, and a later
\* entry starts at least two above the end of every earlier one (in the same
\* chunk or in another).
C22_MaximalRuns ==
    pc = "chunks" =>
        LET entries == EntriesRead(fetch.chunks)
            given == SeqToSet(fetch.ordered_uids)
            Earlier(e, f) == e[1] < f[1] \/ (e[1] = f[1] /\ e[2] < f[2])
        IN /\ \A e \in entries :
                 /\ e[3] <= e[4]
                 /\ \A u \in e[3]..e[4] : u \in given
                 /\ (e[3] - 1) \notin given
                 /\ (e[4] + 1) \notin given
           /\ \A e, f \in entries : Earlier(e, f) => e[4] + 1 < f[3]

\* Runs of two consecutive UIDs were compressed and spread over two chunks.
C22_Witness ==
    /\ pc = "chunks"
    /\ Len(fetch.chunks) >= 2
    /\ \A i \in 1..2 : \E r \in SeqToSet(fetch.chunks[i]) : r[2] = r[1] + 1

\* The lists that hold the same UIDs as the given one: the short lists, the
\* list backwards and the list given twice over.
SameUidLists(uids) ==
    {other \in ShortUidLists \cup {[i \in 1..Len(uids) |-> uids[Len(uids) + 1 - i]], uids \o uids} :
        SeqToSet(other) = SeqToSet(uids)}

MaxText == 3      \* imap_quote is given every text of up to MaxText characters

\* The characters of the texts: a letter, the two characters imap_quote
\* escapes and two control characters.
TextChars == {"a", "\\", "\"", "\n", "\r"}
QuoteArgs == UNION {[1..n -> TextChars] : n \in 0..MaxText}

\* Date expressions: YYYY-MM-DD over years, months and days in and out of
\* range; counts with units; and texts of neither shape.
YearTexts ==
    {<<"0","9","9","9">>, <<"1","9","0","0">>, <<"2","0","0","0">>, <<"2","0","2","4">>,
     <<"2","0","2","5">>}
MonthTexts == {<<"0","0">>, <<"0","1">>, <<"0","2">>, <<"1","2">>, <<"1","3">>}
DayTexts == {<<"0","0">>, <<"0","1">>, <<"0","9">>, <<"2","9">>, <<"3","1">>, <<"3","2">>}
AbsoluteArgs ==
    {y \o <<"-">> \o m \o <<"-">> \o d : y \in YearTexts, m \in MonthTexts, d \in DayTexts}
    \cup {<<"2","0","2",ArabicThree,"-","0","1","-","0","1">>}
CountTexts ==
    {<<>>, <<"0">>, <<"1">>, <<"7">>, <<"0","1","2">>, <<"2","4">>, <<"1","2","4">>,
     <<"1","1","0","0">>, <<"1","5","0","1">>, <<"3","0","0","0">>,
     <<"9","9","9","9","9","9","9","9","9","9","9">>, <<ArabicThree>>, <<"1","x">>}
RelativeArgs == {n \o <<u>> : n \in CountTexts, u \in {"d", "w", "m", "y", "h", "D"}}
OtherDateArgs ==
    {<<>>, <<"y","e","s","t","e","r","d","a","y">>, <<"0","1","/","0","2","/","2","0","2","4">>,
     <<"2","0","2","4","-","1","-","1">>, <<" ","2","0","2","4","-","0","1","-","0","1">>,
     <<"2","0","2","4","-","0","1","-","0","1","\n">>, <<"7"," ","d">>, <<"-","1","d">>,
     <<"7","d","7","d">>}
DateArgs == AbsoluteArgs \cup RelativeArgs \cup OtherDateArgs

\* What SystemTime::now() may give: a time of the day, with the day it falls on.
Clocks ==
    {[secs |-> 1743379200, year |-> 2025, month |-> 3, day |-> 31],
     [secs |-> 1711929599, year |-> 2024, month |-> 3, day |-> 31],
     [secs |-> 954504000, year |-> 2000, month |-> 3, day |-> 31],
     [secs |-> 1680242400, year |-> 2023, month |-> 3, day |-> 31],
     [secs |-> 1709195400, year |-> 2024, month |-> 2, day |-> 29],
     [secs |-> 1767204000, year |-> 2025, month |-> 12, day |-> 31],
     [secs |-> 1748649601, year |-> 2025, month |-> 5, day |-> 31],
     [secs |-> now_secs, year |-> 2025, month |-> 11, day |-> 3]}

\* Size expressions: bare, with a suffix, with blanks, at and over the u64
\* range, empty and not numeric.
SizeArgs ==
    {<<>>, <<" ">>, <<"0">>, <<"7">>, <<"0","0","7">>, <<"1","0","2","4">>, <<"1","K">>,
     <<"1","k">>, <<"1","M">>, <<"1","m">>, <<"5","0","0","K">>, <<" ","5"," ","K"," ">>,
     <<"5","M","B">>, <<"5","K","M">>, <<"K">>, <<"M">>, <<"1","0","x">>, <<"1",".","5","M">>,
     <<"-","1">>, <<"1"," ","0">>, <<"0","x","1","0">>, <<ArabicThree>>,
     U64_MAX, SubSeq(U64_MAX, 1, 19) \o <<"6">>,
     U64_MAX_DIV_K \o <<"K">>, SubSeq(U64_MAX_DIV_K, 1, 16) \o <<"4","K">>,
     U64_MAX_DIV_M \o <<"m">>, SubSeq(U64_MAX_DIV_M, 1, 13) \o <<"6","M">>,
     U64_MAX \o <<"M">>, U64_MAX \o <<"0","0">>}

\* The filter flags of the command line (struct FilterArgs).
FilterArgsSet ==
    {[subject |-> s, from |-> f, to |-> t, cc |-> c, since |-> si, before |-> b, larger |-> l] :
        s \in {None, Some(<<"a","\"","b">>)},
        f \in {None, Some(<<"b","o","b","\r","\n">>)},
        t \in {None, Some(<<"a","l">>)},
        c \in {None, Some(<<"c","y">>)},
        si \in {None, Some(<<"2","0","2","4","-","0","1","-","0","3">>), Some(<<"s","o","o","n">>)},
        b \in {None, Some(<<"2","w">>)},
        l \in {None, Some(<<"1","K">>), Some(<<"1","0","x">>)}}

(***************************************************************************)
(* parse_sort_response on the responses a server may send to UID SORT.     *)
(***************************************************************************)
\* The status of the tagged completion line and its free text.
StatusText(status) ==
    CASE status = "OK" -> <<"O","K">>
      [] status = "NO" -> <<"N","O">>
      [] status = "BAD" -> <<"B","A","D">>

SortFreeTexts ==
    {<<"S","O","R","T"," ","c","o","m","p","l","e","t","e","d">>,
     <<"S","o","r","t"," ","c","o","m","p","l","e","t","e","d"," ","(","N","O"," ",
       "m","a","t","c","h","e","s",")">>,
     <<"n","o","t","h","i","n","g"," ","B","A","D"," ","h","e","r","e">>,
     <<"U","n","k","n","o","w","n"," ","c","o","m","m","a","n","d">>}

\* The identifiers of the `* SORT` lines of a response, line by line.
SortedLines == {<<>>, <<<<5, 3, 1>>>>, <<<<7>>>>, <<<<2>>, <<9, 4>>>>}

\* A response: its `* SORT` lines, then the tagged completion line.
SortResponseArgs ==
    {[lines |-> l, status |-> s, text |-> t] :
        l \in SortedLines, s \in {"OK", "NO", "BAD"}, t \in SortFreeTexts}

TaggedLine(status, text) ==
    <<"A","0","0","1"," ">> \o StatusText(status) \o <<" ">> \o text

ResponseLines(r) ==
    [i \in 1..Len(r.lines) |-> SortLine(r.lines[i])] \o <<TaggedLine(r.status, r.text)>>

Calls ==
    {[name |-> "imap_quote", arg |-> a] : a \in QuoteArgs}
    \cup {[name |-> "parse_date", arg |-> a] : a \in DateArgs}
    \cup {[name |-> "resolve_relative_date", arg |-> a] : a \in DateArgs}
    \cup {[name |-> "parse_size", arg |-> a] : a \in SizeArgs}
    \cup {[name |-> "build_query", arg |-> a] : a \in FilterArgsSet}
    \cup {[name |-> "parse_sort_response", arg |-> a] : a \in SortResponseArgs}

InitFn ==
    /\ mbox = InitMbox
    /\ uidnext = [f \in ServerFolders |-> MaxUidIn(InitMbox[f]) + 1]
    /\ caps = {}
    /\ faults = "none"
    /\ results = <<>>
    /\ selected = NoFolder
    /\ pc = "call"
    /\ cmd \in Calls
    /\ log = <<>>
    /\ warnings = <<>>
    /\ result = NoResult
    /\ query = <<>>
    /\ folder_names = <<>>
    /\ all_messages = <<>>
    /\ fetch = NoFetch
    /\ messages = None
    /\ confirm = "unasked"
    /\ by_folder = <<>>
    /\ move = NoMove

\* A call returns: only pc and result change.
Returns(value) ==
    /\ result' = value
    /\ pc' = "return"
    /\ UNCHANGED <<mbox, uidnext, caps, faults, results, selected, cmd, log, warnings, query,
                   folder_names, all_messages, fetch, messages, confirm, by_folder, move>>

ImapQuote == pc = "call" /\ cmd.name = "imap_quote" /\ Returns(imap_quote(cmd.arg))

\* The messages of parse_date's errors, around the input they quote.
InvalidDatePrefix ==
    <<"I","n","v","a","l","i","d"," ","d","a","t","e"," ","'">>
EitherGrammarSuffix ==
    <<"'"," ","(","e","x","p","e","c","t","e","d"," ","Y","Y","Y","Y","-","M","M","-","D",
      "D"," ","o","r"," ","r","e","l","a","t","i","v","e"," ","l","i","k","e"," ","7","d",
      ","," ","2","w",","," ","3","m",","," ","1","y",")">>
AbsoluteGrammarSuffix ==
    <<"'"," ","(","e","x","p","e","c","t","e","d"," ","Y","Y","Y","Y","-","M","M","-","D",
      "D",","," ","e",".","g","."," ","2","0","2","5","-","0","1","-","3","1",")">>
\* Display of ParseIntError: the count does not fit, or a digit is not ASCII.
PosOverflowText ==
    <<"n","u","m","b","e","r"," ","t","o","o"," ","l","a","r","g","e"," ","t","o"," ","f",
      "i","t"," ","i","n"," ","t","a","r","g","e","t"," ","t","y","p","e">>
InvalidDigitText ==
    <<"i","n","v","a","l","i","d"," ","d","i","g","i","t"," ","f","o","u","n","d"," ","i",
      "n"," ","s","t","r","i","n","g">>

\* The message of the error e that parse_date(s) returned.
ErrorText(e, s) ==
    IF e = "Invalid date (expected YYYY-MM-DD or relative)"
    THEN InvalidDatePrefix \o s \o EitherGrammarSuffix
    ELSE IF e = "Invalid date (expected YYYY-MM-DD)"
    THEN InvalidDatePrefix \o s \o AbsoluteGrammarSuffix
    ELSE IF \E i \in 1..Len(s) : s[i] = ArabicThree THEN InvalidDigitText
    ELSE PosOverflowText

\* parse_date(s), an error with its message.
Reported(r, s) == [ok |-> r.ok, val |-> r.val, err |-> r.err,
                   message |-> IF r.ok THEN <<>> ELSE ErrorText(r.err, s)]

ParseDate ==
    pc = "call" /\ cmd.name = "parse_date" /\ Returns(Reported(parse_date(cmd.arg), cmd.arg))

\* resolve_relative_date reads the clock itself; the value read is kept with
\* what it returned.
ResolveRelativeDate ==
    /\ pc = "call" /\ cmd.name = "resolve_relative_date"
    /\ \E now \in Clocks : Returns([now |-> now, val |-> ResolveAt(now.secs, cmd.arg)])

ParseSize == pc = "call" /\ cmd.name = "parse_size" /\ Returns(parse_size(cmd.arg))

\* FilterArgs::to_criteria: the fields of SearchCriteria, filled from the flags.
to_criteria(filter, limit, folder) ==
    [folder |-> folder, all_folders |-> FALSE, subject |-> filter.subject,
     from |-> filter.from, since |-> filter.since, before |-> filter.before,
     larger |-> filter.larger, limit |-> limit]

\* The keyword of a clause, as the text the format string holds.
KeyText(key) ==
    CASE key = "SUBJECT" -> <<"S","U","B","J","E","C","T">>
      [] key = "FROM" -> <<"F","R","O","M">>
      [] key = "SINCE" -> <<"S","I","N","C","E">>
      [] key = "BEFORE" -> <<"B","E","F","O","R","E">>
      [] key = "LARGER" -> <<"L","A","R","G","E","R">>
      [] key = "ALL" -> <<"A","L","L">>

\* format!("SUBJECT {}", ..) and the like; "ALL".to_string()
ClauseText(c) == IF c.key = "ALL" THEN KeyText(c.key) ELSE KeyText(c.key) \o <<" ">> \o c.arg

\* parts.join(" ")
RECURSIVE Join(_)
Join(parts) ==
    IF parts = <<>> THEN <<>>
    ELSE IF Len(parts) = 1 THEN ClauseText(parts[1])
    ELSE ClauseText(parts[1]) \o <<" ">> \o Join(Tail(parts))

\* The string build_query returns, or its error.
QueryString(r) == IF r.ok THEN ROk(Join(r.val)) ELSE r

BuildQuery ==
    /\ pc = "call" /\ cmd.name = "build_query"
    /\ Returns(QueryString(build_query(to_criteria(cmd.arg, None, default_folder))))

\* parse_sort_response(&data): Ok(uids) or the error.
ParseSortResponse ==
    /\ pc = "call"
    /\ cmd.name = "parse_sort_response"
    /\ LET r == parse_sort_response(ResponseLines(cmd.arg))
       IN Returns([ok |-> r.ok, uids |-> IF r.ok THEN r.uids ELSE <<>>])

NextFn ==
    \/ ImapQuote \/ ParseDate \/ ResolveRelativeDate \/ ParseSize \/ BuildQuery
    \/ ParseSortResponse

SpecFn == InitFn /\ [][NextFn]_vars

\* Text s, read as a character escaped or not: every backslash of s starts a
\* pair \\ or \", and no double quote stands outside such a pair.
RECURSIVE WellEscaped(_)
WellEscaped(s) ==
    IF s = <<>> THEN TRUE
    ELSE IF Head(s) = "\\"
         THEN Len(s) >= 2 /\ s[2] \in {"\\", "\""} /\ WellEscaped(Tail(Tail(s)))
    ELSE Head(s) # "\"" /\ WellEscaped(Tail(s))

\* The control characters of a text taken out, the rest kept in order.
RECURSIVE Stripped(_)
Stripped(s) ==
    IF s = <<>> THEN <<>>
    ELSE IF Head(s) \in {"\t", "\n", "\r", "\f"} THEN Stripped(Tail(s))
    ELSE <<Head(s)>> \o Stripped(Tail(s))

\* C24: for every text, imap_quote returns a text between two double quotes
\* that holds no control character, whose interior has every double quote and
\* backslash escaped by a backslash, and whose interior unescaped is the given
\* text without its control characters.
C24_QuoteRoundTrip ==
    (pc = "return" /\ cmd.name = "imap_quote") =>
        LET interior == SubSeq(result, 2, Len(result) - 1)
        IN /\ Len(result) >= 2
           /\ result[1] = "\"" /\ result[Len(result)] = "\""
           /\ \A i \in 1..Len(result) : result[i] \notin {"\t", "\n", "\r", "\f"}
           /\ WellEscaped(interior)
           /\ Unescape(interior) = Stripped(cmd.arg)

\* A text with a backslash, a double quote and a newline was quoted.
C24_Witness ==
    /\ pc = "return" /\ cmd.name = "imap_quote"
    /\ {"\\", "\"", "\n"} \subseteq SeqToSet(cmd.arg)

\* The text cut at every space: the pieces between the spaces, empty pieces
\* kept.
RECURSIVE Pieces(_, _)
Pieces(s, piece) ==
    IF s = <<>> THEN <<piece>>
    ELSE IF Head(s) = " " THEN <<piece>> \o Pieces(Tail(s), <<>>)
    ELSE Pieces(Tail(s), Append(piece, Head(s)))

\* The filters of SearchCriteria in the order of the claim, each with its
\* keyword.
FilterOrder ==
    <<[field |-> "subject", key |-> <<"S","U","B","J","E","C","T">>],
      [field |-> "from", key |-> <<"F","R","O","M">>],
      [field |-> "since", key |-> <<"S","I","N","C","E">>],
      [field |-> "before", key |-> <<"B","E","F","O","R","E">>],
      [field |-> "larger", key |-> <<"L","A","R","G","E","R">>]>>

\* The keywords of the filters present in the criteria, in that order.
PresentKeys(filter) ==
    LET Present(f) == IsSome(filter[f.field])
        Key(i) == SelectSeq(FilterOrder, Present)[i].key
    IN [i \in 1..Len(SelectSeq(FilterOrder, Present)) |-> Key(i)]

\* C25: a query build_query returns is ALL when none of the five filters is
\* present; otherwise, cut at its spaces, it is keyword, argument, keyword,
\* argument, ... with no empty piece (one space between clauses, none before or
\* after), the keywords being those of the present filters in the order
\* SUBJECT, FROM, SINCE, BEFORE, LARGER.
C25_ClauseOrder ==
    (pc = "return" /\ cmd.name = "build_query" /\ result.ok) =>
        LET keys == PresentKeys(cmd.arg)
            pieces == Pieces(result.val, <<>>)
        IN IF keys = <<>> THEN result.val = <<"A","L","L">>
           ELSE /\ Len(pieces) = 2 * Len(keys)
                /\ \A i \in 1..Len(pieces) : pieces[i] # <<>>
                /\ \A i \in 1..Len(keys) : pieces[2 * i - 1] = keys[i]

\* A query with all five filters was compiled.
C25_Witness ==
    /\ pc = "return" /\ cmd.name = "build_query" /\ result.ok
    /\ Len(PresentKeys(cmd.arg)) = 5

\* The query ALL was compiled from no filter.
C25_WitnessAll ==
    /\ pc = "return" /\ cmd.name = "build_query" /\ result.ok
    /\ \A f \in DOMAIN cmd.arg : cmd.arg[f] = None

\* The string filters of the command line, each with the keyword of its clause.
StringFilters ==
    {[field |-> "subject", key |-> <<"S","U","B","J","E","C","T">>],
     [field |-> "from", key |-> <<"F","R","O","M">>],
     [field |-> "to", key |-> <<"T","O">>],
     [field |-> "cc", key |-> <<"C","C">>]}

\* C26: the query compiled from the filter flags holds, for each string filter
\* given (subject, sender, recipient, cc), a clause of its own: the keyword and
\* the filter's value sanitized and quoted.
C26_EveryStringFilterHasClause ==
    (pc = "return" /\ cmd.name = "build_query" /\ result.ok) =>
        \A f \in StringFilters :
            IsSome(cmd.arg[f.field]) =>
                contains(result.val, f.key \o <<" ">> \o imap_quote(Unwrap(cmd.arg[f.field])))

\* The text cut at every '-': the pieces between them, empty pieces kept.
RECURSIVE DashPieces(_, _)
DashPieces(s, piece) ==
    IF s = <<>> THEN <<piece>>
    ELSE IF Head(s) = "-" THEN <<piece>> \o DashPieces(Tail(s), <<>>)
    ELSE DashPieces(Tail(s), Append(piece, Head(s)))

\* D-Mon-YYYY: a day of one or two digits without leading zero, a month
\* abbreviation, a year of four digits.
IsImapDate(text) ==
    LET p == DashPieces(text, <<>>)
    IN /\ Len(p) = 3
       /\ Len(p[1]) \in 1..2 /\ AllDigits(p[1]) /\ p[1][1] # "0"
       /\ \E k \in 1..12 : p[2] = MONTH_ABBRS[k]
       /\ Len(p[3]) = 4 /\ AllDigits(p[3])

\* YYYY-MM-DD in ASCII digits.
IsIsoShape(s) ==
    /\ Len(s) = 10 /\ s[5] = "-" /\ s[8] = "-"
    /\ \A i \in {1, 2, 3, 4, 6, 7, 9, 10} : IsDigit(s[i])

\* C27: every date parse_date returns has the form D-Mon-YYYY (day without
\* leading zero, month abbreviation, four-digit year), and for an input
\* YYYY-MM-DD its day, month and year are those of the input.
C27_ImapDateForm ==
    (pc = "return" /\ cmd.name = "parse_date" /\ result.ok) =>
        /\ IsImapDate(result.val)
        /\ IsIsoShape(cmd.arg) =>
              LET p == DashPieces(result.val, <<>>)
              IN /\ DigitsValue(p[1], 0) = DigitsValue(SubSeq(cmd.arg, 9, 10), 0)
                 /\ p[2] = MONTH_ABBRS[DigitsValue(SubSeq(cmd.arg, 6, 7), 0)]
                 /\ p[3] = SubSeq(cmd.arg, 1, 4)

\* Names of the two grammars as the messages give them.
AbsoluteGrammarName == <<"Y","Y","Y","Y","-","M","M","-","D","D">>
RelativeGrammarName == <<"r","e","l","a","t","i","v","e">>

\* The date expressions of the claim: YYYY-MM-DD with a month 1..12 and a day
\* 1..31, or a count in digits followed by one of d, w, m, y.
ClaimedDateExpr(s) ==
    \/ /\ IsIsoShape(s)
       /\ DigitsValue(SubSeq(s, 6, 7), 0) \in 1..12
       /\ DigitsValue(SubSeq(s, 9, 10), 0) \in 1..31
    \/ /\ Len(s) >= 2
       /\ s[Len(s)] \in {"d", "w", "m", "y"}
       /\ AllDigits(SubSeq(s, 1, Len(s) - 1))

\* C28: for every text that is no date expression of either grammar,
\* parse_date fails and its message quotes the text and names both grammars;
\* build_query given such a text as --since or --before fails too.
C28_InvalidDateReported ==
    /\ (pc = "return" /\ cmd.name = "parse_date" /\ ~ClaimedDateExpr(cmd.arg)) =>
          /\ ~result.ok
          /\ contains(result.message, <<"'">> \o cmd.arg \o <<"'">>)
          /\ contains(result.message, AbsoluteGrammarName)
          /\ contains(result.message, RelativeGrammarName)
    /\ (pc = "return" /\ cmd.name = "build_query") =>
          ((\E f \in {"since", "before"} :
               IsSome(cmd.arg[f]) /\ ~ClaimedDateExpr(Unwrap(cmd.arg[f]))) => ~result.ok)

\* The leap-year rule of the claim, and the last day of a month under it.
IsLeapYear(y) == y % 4 = 0 /\ (y % 100 # 0 \/ y % 400 = 0)
LastDayOf(y, m) ==
    IF m = 2 THEN (IF IsLeapYear(y) THEN 29 ELSE 28)
    ELSE IF m \in {4, 6, 9, 11} THEN 30 ELSE 31

\* The day n calendar months before the day `today`, clamped to the month.
MonthsBefore(today, n) ==
    LET index == today.year * 12 + (today.month - 1) - n
        y == index \div 12
        m == (index % 12) + 1
    IN [year |-> y, month |-> m, day |-> Min(today.day, LastDayOf(y, m))]

\* A count of d, w, m or y that fits u32, as a number; the unit.
CountOf(s) == DigitsValue(SubSeq(s, 1, Len(s) - 1), 0)
UnitOf(s) == s[Len(s)]
IsCountOf(s, units) ==
    /\ Len(s) \in 2..10 /\ UnitOf(s) \in units
    /\ AllDigits(SubSeq(s, 1, Len(s) - 1))

DateText(t) == FormatNum(t.day) \o <<"-">> \o MONTH_ABBRS[t.month] \o <<"-">> \o FormatInt(t.year)

\* C29: 'Nm' and 'Ny' give the day N calendar months (12 N for years) before
\* the day the clock shows, the day of the month kept and clamped to the last
\* day of the target month under the leap-year rule; '1m' on a March 31 gives
\* February 29 of that year when it is a leap year and February 28 otherwise.
C29_MonthsAndYearsClamped ==
    (pc = "return" /\ cmd.name = "resolve_relative_date" /\ IsCountOf(cmd.arg, {"m", "y"})) =>
        LET months == IF UnitOf(cmd.arg) = "m" THEN CountOf(cmd.arg) ELSE 12 * CountOf(cmd.arg)
            answer == result.val
        IN /\ IsSome(answer) /\ Unwrap(answer).ok
           /\ Unwrap(answer).val = DateText(MonthsBefore(result.now, months))
           /\ (result.now.month = 3 /\ result.now.day = 31 /\ cmd.arg = <<"1", "m">>) =>
                 Unwrap(answer).val =
                    (IF IsLeapYear(result.now.year) THEN <<"2", "9">> ELSE <<"2", "8">>)
                    \o <<"-", "F", "e", "b", "-">> \o FormatNum(result.now.year)

\* '1m' was resolved on March 31 of a leap year.
C29_Witness ==
    /\ pc = "return" /\ cmd.name = "resolve_relative_date"
    /\ cmd.arg = <<"1", "m">>
    /\ result.now.month = 3 /\ result.now.day = 31 /\ IsLeapYear(result.now.year)
    /\ IsSome(result.val)
    /\ Unwrap(result.val).val = <<"2","9","-","F","e","b","-","2","0","2","4">>

\* A count of months or years reached the February of 1900 from a day after
\* the 28th.
C29_WitnessCentury ==
    /\ pc = "return" /\ cmd.name = "resolve_relative_date"
    /\ result.now.day > 28
    /\ IsSome(result.val)
    /\ Unwrap(result.val).val = <<"2","8","-","F","e","b","-","1","9","0","0">>

\* Twice the number with the decimal digits s[1..i], plus carry.
RECURSIVE DoubleFrom(_, _, _)
DoubleFrom(s, i, carry) ==
    IF i = 0 THEN (IF carry = 0 THEN <<>> ELSE <<"1">>)
    ELSE LET t == 2 * DigitsValue(<<s[i]>>, 0) + carry
         IN Append(DoubleFrom(s, i - 1, t \div 10), DigitChars[(t % 10) + 1])

\* The digits of n * 2^k, n given by its digits.
RECURSIVE TimesPowerOfTwo(_, _)
TimesPowerOfTwo(s, k) ==
    IF k = 0 THEN s ELSE TimesPowerOfTwo(DoubleFrom(s, Len(s), 0), k - 1)

\* The digits of a number without its leading zeros ("0" for zero).
Canonical(s) ==
    LET nonzero == {i \in 1..Len(s) : s[i] # "0"}
    IN IF nonzero = {} THEN <<"0">>
       ELSE SubSeq(s, CHOOSE i \in nonzero : \A j \in nonzero : i <= j, Len(s))

\* The number (canonical digits) is within the unsigned 64-bit range.
FitsU64(d) ==
    \/ Len(d) < 20
    \/ /\ Len(d) = 20
       /\ \/ d = U64_MAX
          \/ \E i \in 1..20 : /\ \A j \in 1..(i - 1) : d[j] = U64_MAX[j]
                              /\ DigitsValue(<<d[i]>>, 0) < DigitsValue(<<U64_MAX[i]>>, 0)

\* A text without the blanks around it.
Unblanked(s) ==
    LET solid == {i \in 1..Len(s) : s[i] # " "}
    IN IF solid = {} THEN <<>>
       ELSE SubSeq(s, CHOOSE i \in solid : \A j \in solid : i <= j,
                      CHOOSE i \in solid : \A j \in solid : j <= i)

\* A size expression read as the claim reads it: the digits before the suffix
\* and the power of two the suffix stands for.
SizeReading(s) ==
    LET t == Unblanked(s)
        suffix == IF t # <<>> /\ t[Len(t)] \in {"K", "k"} THEN 10
                  ELSE IF t # <<>> /\ t[Len(t)] \in {"M", "m"} THEN 20 ELSE 0
        digits == IF suffix = 0 THEN t ELSE Unblanked(SubSeq(t, 1, Len(t) - 1))
    IN [numeric |-> digits # <<>> /\ AllDigits(digits), digits |-> digits, power |-> suffix]

\* C30: parse_size returns the number itself for a bare integer, 1024 times it
\* for a K/k suffix and 1,048,576 times it for an M/m suffix, whenever that
\* product is within the unsigned 64-bit range; it fails when the product is
\* beyond that range (it never returns a wrapped value) and when the text is
\* empty or not a number.
C30_SizeOrError ==
    (pc = "return" /\ cmd.name = "parse_size") =>
        LET r == SizeReading(cmd.arg)
        IN IF ~r.numeric THEN ~result.ok
           ELSE LET product == Canonical(TimesPowerOfTwo(r.digits, r.power))
                IN IF FitsU64(product) THEN result.ok /\ result.val = product
                   ELSE ~result.ok

\* The largest count of K that fits was multiplied, and the next one failed.
C30_Witness ==
    /\ pc = "return" /\ cmd.name = "parse_size"
    /\ cmd.arg = U64_MAX_DIV_K \o <<"K">>
    /\ result.ok
    /\ result.val = SubSeq(U64_MAX, 1, 16) \o <<"0","5","9","2">>

\* A product beyond the range was refused.
C30_WitnessTooLarge ==
    /\ pc = "return" /\ cmd.name = "parse_size"
    /\ result.err = "Size is too large"

(***************************************************************************)
(* export_messages on its own.  messages holds the rows it is given, cmd   *)
(* the force flag and the default folder, by_folder the groups not yet     *)
(* exported, move the chunks of the current group, fetch the directory     *)
(* (<uid>.eml -> content) with the function's locals, result what it       *)
(* returns.                                                                *)
(***************************************************************************)
MaxFileUid == 2   \* the rows and the files of the directory have UIDs 1..MaxFileUid

\* A file of the directory is the body it holds: that of a message, one
\* written before the run, or none (the file is absent).
Absent == [folder |-> NoFolder, id |-> <<>>]
OldFile == [folder |-> NoFolder, id |-> <<"o","l","d">>]
BodyOf(f, m) == [folder |-> f, id |-> FormatNum(m.id)]

\* The rows export is given: of one mailbox (no label) or labelled rows of
\* INBOX and Work, where the same UID occurs in both.
ExportRowSets ==
    {{[uid |-> u, folder |-> None, timestamp |-> 0] : u \in S} : S \in SUBSET (1..MaxFileUid)}
    \cup {{[uid |-> p[2], folder |-> Some(p[1]), timestamp |-> 0] : p \in S} :
             S \in SUBSET ({INBOX, Work} \X (1..MaxFileUid))}

\* The rows of a set as search returns them: newest first or, with server
\* SORT, in the server's order; here by (UID, folder) descending or ascending.
RowKey(r) == 2 * r.uid + (IF r.folder = Some(Work) THEN 1 ELSE 0)

RowsInOrder(S) ==
    LET n == Cardinality(S)
    IN {s \in [1..n -> S] :
          \/ \A i, j \in 1..n : i < j => RowKey(s[i]) < RowKey(s[j])
          \/ \A i, j \in 1..n : i < j => RowKey(s[i]) > RowKey(s[j])}

NoExport == [out_dir |-> [u \in 1..MaxFileUid |-> Absent], fetches |-> <<>>,
             exported |-> 0, skipped |-> 0]

InitExport ==
    /\ mbox = InitMbox
    /\ uidnext = [f \in ServerFolders |-> MaxUidIn(InitMbox[f]) + 1]
    /\ caps = {}
    /\ faults \in {"none", "fetch"}
    /\ results = <<>>
    /\ selected = NoFolder
    /\ pc = "x_start"
    /\ \E force \in BOOLEAN :
          cmd = [name |-> "export", force |-> force,
                 criteria |-> [folder |-> default_folder, all_folders |-> FALSE,
                               subject |-> None, limit |-> None, from |-> None,
                               since |-> None, before |-> None, larger |-> None],
                 dest |-> NoFolder, yes |-> TRUE, dry_run |-> FALSE]
    /\ log = <<>>
    /\ warnings = <<>>
    /\ result = NoResult
    /\ query = <<>>
    /\ folder_names = <<>>
    /\ all_messages = <<>>
    /\ \E files \in [1..MaxFileUid -> {Absent, OldFile}] :
          fetch = [NoExport EXCEPT !.out_dir = files]
    /\ \E S \in ExportRowSets : \E rows \in RowsInOrder(S) : messages = Some(rows)
    /\ confirm = "unasked"
    /\ by_folder = <<>>
    /\ move = NoMove

\* std::fs::create_dir_all(out_dir)?, then the rows grouped by folder.
ExportStart ==
    /\ pc = "x_start"
    /\ \E ok \in BOOLEAN :
          IF ok
          THEN by_folder' = GroupByFolder(Unwrap(messages)) /\ pc' = "x_group"
               /\ UNCHANGED result
          ELSE result' = Err("Failed to create directory") /\ pc' = "x_done"
               /\ UNCHANGED by_folder
    /\ UNCHANGED <<mbox, uidnext, caps, faults, results, selected, cmd, log, warnings, query,
                   folder_names, all_messages, fetch, messages, confirm, move>>

\* for (folder, uids) in &by_folder { session.select(folder)?; .. }
ExportSelect ==
    /\ pc = "x_group"
    /\ \E f \in DOMAIN by_folder, ok \in BOOLEAN :
        /\ ok => f \in ServerFolders
        /\ log' = Append(log, Entry("SELECT", <<>>, f, "", ok))
        /\ IF ok
           THEN /\ selected' = f
                /\ move' = [NoMove EXCEPT !.folder = f, !.chunks = build_uid_set(by_folder[f])]
                /\ by_folder' = [g \in DOMAIN by_folder \ {f} |-> by_folder[g]]
                /\ pc' = "x_chunk"
                /\ UNCHANGED result
           ELSE /\ selected' = NoFolder
                /\ result' = SelectErr(f)
                /\ pc' = "x_done"
                /\ UNCHANGED <<move, by_folder>>
    /\ UNCHANGED <<mbox, uidnext, caps, faults, results, cmd, warnings, query,
                   folder_names, all_messages, fetch, messages, confirm>>

\* The records a UID FETCH .. BODY.PEEK[] may answer, in UID order: one per
\* message of the selected mailbox in the set; a broken server may leave the
\* UID or the body out of a record.
ExportAnswers(chunk) ==
    LET hit == SortAsc({m.uid : m \in {x \in mbox[selected] : x.uid \in UidsOf(chunk)}})
        msg(u) == CHOOSE m \in mbox[selected] : m.uid = u
        kinds == IF faults = "fetch" THEN {"full", "no uid", "no body"} ELSE {"full"}
    IN {[i \in 1..Len(hit) |->
            [uid |-> IF k[i] = "no uid" THEN None ELSE Some(hit[i]),
             body |-> IF k[i] = "no body" THEN None ELSE Some(BodyOf(selected, msg(hit[i])))]] :
          k \in [1..Len(hit) -> kinds]}

\* Where the loops go on once the records of a chunk are done.
AfterRecords(chunks) == IF chunks = <<>> THEN "x_group" ELSE "x_chunk"

\* session.uid_fetch(chunk, "BODY.PEEK[]")?
ExportFetch ==
    /\ pc = "x_chunk"
    /\ \E ok \in BOOLEAN :
          \E fetches \in (IF ok THEN ExportAnswers(Head(move.chunks)) ELSE {<<>>}) :
        /\ log' = Append(log, Entry("UID FETCH", Head(move.chunks), selected, "BODY.PEEK[]", ok))
        /\ IF ok
           THEN /\ fetch' = [fetch EXCEPT !.fetches = fetches]
                /\ move' = [move EXCEPT !.chunks = Tail(move.chunks)]
                /\ pc' = IF fetches = <<>> THEN AfterRecords(Tail(move.chunks)) ELSE "x_record"
                /\ UNCHANGED result
           ELSE /\ result' = Err("Failed to fetch messages")
                /\ pc' = "x_done"
                /\ UNCHANGED <<fetch, move>>
    /\ UNCHANGED <<mbox, uidnext, caps, faults, results, selected, cmd, warnings, query,
                   folder_names, all_messages, messages, confirm, by_folder>>

\* The overwrite test dropped: every body is written.
MustSkip_Never(exists, force) == FALSE

\* if path.exists() && !force
MustSkip(exists, force) == exists /\ ~force

\* One record of the answer: continue without a UID, nothing without a body,
\* skipped when the file exists and force is off, else written (the write may
\* fail).
ExportRecord ==
    /\ pc = "x_record"
    /\ LET rec == Head(fetch.fetches)
           rest == Tail(fetch.fetches)
           next == IF rest = <<>> THEN AfterRecords(move.chunks) ELSE "x_record"
       IN IF ~IsSome(rec.uid) \/ ~IsSome(rec.body)
          THEN /\ fetch' = [fetch EXCEPT !.fetches = rest]
               /\ pc' = next
               /\ UNCHANGED result
          ELSE IF MustSkip(fetch.out_dir[Unwrap(rec.uid)] # Absent, cmd.force)
          THEN /\ fetch' = [fetch EXCEPT !.fetches = rest, !.skipped = @ + 1]
               /\ pc' = next
               /\ UNCHANGED result
          ELSE \E ok \in BOOLEAN :
                  IF ok
                  THEN /\ fetch' = [fetch EXCEPT !.fetches = rest, !.exported = @ + 1,
                                                 !.out_dir[Unwrap(rec.uid)] = Unwrap(rec.body)]
                       /\ pc' = next
                       /\ UNCHANGED result
                  ELSE /\ result' = Err("Failed to write")
                       /\ pc' = "x_done"
                       /\ UNCHANGED fetch
    /\ UNCHANGED <<mbox, uidnext, caps, faults, results, selected, cmd, log, warnings, query,
                   folder_names, all_messages, messages, confirm, by_folder, move>>

\* Ok((exported, skipped))
ExportFinish ==
    /\ pc = "x_group"
    /\ DOMAIN by_folder = {}
    /\ result' = [status |-> "ok", err |-> "-",
                  exported |-> fetch.exported, skipped |-> fetch.skipped]
    /\ pc' = "x_done"
    /\ UNCHANGED <<mbox, uidnext, caps, faults, results, selected, cmd, log, warnings, query,
                   folder_names, all_messages, fetch, messages, confirm, by_folder, move>>

NextExport == ExportStart \/ ExportSelect \/ ExportFetch \/ ExportRecord \/ ExportFinish

SpecExport == InitExport /\ [][NextExport]_vars

\* The record export_messages is about to handle names a file that exists.
OnExistingFile ==
    /\ pc = "x_record"
    /\ IsSome(Head(fetch.fetches).uid) /\ IsSome(Head(fetch.fetches).body)
    /\ fetch.out_dir[Unwrap(Head(fetch.fetches).uid)] # Absent

C31_WitnessForce ==
    /\ pc = "x_done" /\ result.status = "ok"
    /\ cmd.force
    /\ fetch.exported = 2 /\ fetch.skipped = 0
    /\ \A u \in 1..MaxFileUid : fetch.out_dir[u] \notin {Absent, OldFile}

(***************************************************************************)
(* Server SORT with a limit.                                               *)
(***************************************************************************)
\* The position in the log of the last UID SORT the server answered, 0 if none.
LastSort ==
    LET at == {i \in 1..Len(log) : log[i].cmd = "UID SORT" /\ log[i].ok}
    IN IF at = {} THEN 0 ELSE CHOOSE i \in at : \A j \in at : j <= i

\* The identifiers of the last sorted answer, in server order.
LastSorted == parse_sort_response(log[LastSort].data).uids

\* The identifiers requested by the UID FETCH commands sent after the last UID SORT.
FetchedSinceSort ==
    UNION {UidsOf(log[i].set) : i \in {j \in (LastSort + 1)..Len(log) : log[j].cmd = "UID FETCH"}}

\* The mailbox being read was sorted by the server and a limit applies.
SortedWithLimit ==
    /\ pc \in {"f_fetch", "s_loop", "logout", "done"}
    /\ cmd.name = "search"
    /\ fetch.pre_sorted
    /\ IsSome(fetch.limit)
    /\ LastSort > 0

\* C32: with server SORT and a limit N, the UID FETCH commands of the mailbox
\* request nothing but the first N identifiers of the sorted answer, and once
\* every FETCH has been answered they have requested exactly those.
C32_FetchOnlyFirstN ==
    SortedWithLimit =>
        LET first == SeqToSet(Truncate(LastSorted, fetch.limit))
        IN /\ FetchedSinceSort \subseteq first
           /\ Cardinality(FetchedSinceSort) <= Unwrap(fetch.limit)
           /\ (fetch.chunks = <<>> /\ log[Len(log)].ok /\ log[Len(log)].cmd = "UID FETCH")
                  => FetchedSinceSort = first

\* A sorted answer longer than the limit was cut and its first N identifiers fetched.
C32_Witness ==
    /\ SortedWithLimit
    /\ pc = "logout"
    /\ Unwrap(fetch.limit) > 0
    /\ Len(LastSorted) > Unwrap(fetch.limit)
    /\ FetchedSinceSort = SeqToSet(Truncate(LastSorted, fetch.limit))

(***************************************************************************)
(* The chunk and record loops of fetch_messages (search.rs:346-424), on    *)
(* identifier lists long enough to need more than one UID FETCH, with      *)
(* answers that may hold records without a usable UID.                     *)
(***************************************************************************)
MaxRecords == 2    \* the records of one answer

\* The identifiers of the mailbox: a long scattered list (two chunks) or a short one.
RecordUidLists == LongUidLists \cup {<<1, 2, 3>>, <<7>>}

\* What a record's UID field may hold: a UID of the chunk, nothing, or 0.
RecordUids(chunk) ==
    {Some(chunk[1][1]), Some(chunk[Len(chunk)][2]), None, Some(0)}

\* The answers to a UID FETCH of the chunk: up to MaxRecords records, in any order.
RecordAnswers(chunk) ==
    UNION {[1..n -> {[uid |-> u] : u \in RecordUids(chunk)}] : n \in 0..MaxRecords}

NoRecords == [folder |-> INBOX, chunks |-> <<>>, fetches |-> <<>>,
              warned_invalid_uid |-> FALSE, by_uid |-> {}, sent |-> 0]

InitRecords ==
    /\ mbox = InitMbox
    /\ uidnext = [f \in ServerFolders |-> MaxUidIn(InitMbox[f]) + 1]
    /\ caps = {}
    /\ faults = "fetch"
    /\ results = <<>>
    /\ selected = INBOX
    /\ pc = "r_chunk"
    /\ cmd = [name |-> "search", criteria |-> [folder |-> INBOX, all_folders |-> FALSE,
                               subject |-> None, limit |-> None, from |-> None,
                               since |-> None, before |-> None, larger |-> None],
              dest |-> NoFolder, yes |-> TRUE, dry_run |-> FALSE]
    /\ log = <<>>
    /\ warnings = <<>>
    /\ result = NoResult
    /\ query = <<>>
    /\ folder_names = <<>>
    /\ all_messages = <<>>
    /\ \E uids \in RecordUidLists :
          fetch = [NoRecords EXCEPT !.chunks = build_uid_set(uids)]
    /\ messages = None
    /\ confirm = "unasked"
    /\ by_folder = <<>>
    /\ move = NoMove

\* for chunk in &uid_chunks { let mut warned_invalid_uid = false; ...
WarnedAtChunkStart(warned) == FALSE

\* After the last record of an answer: the next chunk, or the rows are assembled.
AfterAnswer(chunks) == IF chunks = <<>> THEN "r_done" ELSE "r_chunk"

\* One turn of the chunk loop: session.uid_fetch(chunk, ...).context("IMAP FETCH failed")?
FetchChunk ==
    /\ pc = "r_chunk"
    /\ \E ok \in BOOLEAN :
          \E fetches \in (IF ok THEN RecordAnswers(Head(fetch.chunks)) ELSE {<<>>}) :
        IF ok
        THEN /\ fetch' = [fetch EXCEPT !.chunks = Tail(fetch.chunks),
                                       !.fetches = fetches,
                                       !.warned_invalid_uid = WarnedAtChunkStart(@),
                                       !.sent = @ + 1]
             /\ pc' = IF fetches = <<>> THEN AfterAnswer(Tail(fetch.chunks)) ELSE "r_record"
             /\ UNCHANGED result
        ELSE /\ fetch' = [fetch EXCEPT !.sent = @ + 1]
             /\ result' = Err("IMAP FETCH failed")
             /\ pc' = "r_done"
    /\ UNCHANGED <<mbox, uidnext, caps, faults, results, selected, cmd, log, warnings, query,
                   folder_names, all_messages, messages, confirm, by_folder, move>>

\* One turn of the record loop: a record without a positive UID is skipped,
\* with a warning unless the flag is set; any other is put into by_uid.
FetchRecord ==
    /\ pc = "r_record"
    /\ LET rec == Head(fetch.fetches)
           rest == Tail(fetch.fetches)
       IN /\ IF ValidUid(rec.uid)
             THEN /\ fetch' = [fetch EXCEPT !.fetches = rest,
                                            !.by_uid = @ \cup {Unwrap(rec.uid)}]
                  /\ UNCHANGED warnings
             ELSE /\ fetch' = [fetch EXCEPT !.fetches = rest, !.warned_invalid_uid = TRUE]
                  /\ warnings' = IF fetch.warned_invalid_uid THEN warnings
                                 ELSE Append(warnings, [kind |-> "invalid UID",
                                                        folder |-> fetch.folder])
          /\ pc' = IF rest = <<>> THEN AfterAnswer(fetch.chunks) ELSE "r_record"
    /\ UNCHANGED <<mbox, uidnext, caps, faults, results, selected, cmd, log, result, query,
                   folder_names, all_messages, messages, confirm, by_folder, move>>

NextRecords == FetchChunk \/ FetchRecord

SpecRecords == InitRecords /\ [][NextRecords]_vars

\* The warnings about records without a usable UID emitted for the mailbox.
InvalidUidWarnings ==
    SelectSeq(warnings, LAMBDA w : w.kind = "invalid UID" /\ w.folder = fetch.folder)

\* C33: during detail retrieval for one mailbox the warning about records
\* with a missing or non-positive UID is emitted at most once, however many
\* chunks and records are affected, and no such record is kept.
C33_WarnedOncePerMailbox ==
    /\ Len(InvalidUidWarnings) <= 1
    /\ \A u \in fetch.by_uid : u > 0

(***************************************************************************)
(* parse_sort_response and the tagged completion line.                     *)
(***************************************************************************)
RECURSIVE Concat(_)
Concat(seqs) == IF seqs = <<>> THEN <<>> ELSE Head(seqs) \o Concat(Tail(seqs))

\* C34: parse_sort_response returns an error if and only if the tagged
\* completion line has status NO or BAD; with a tagged OK line, whatever its
\* free text, it returns the identifiers of the `* SORT` lines in server
\* order (none when there is no such line).
C34_ErrorIffRejected ==
    (pc = "return" /\ cmd.name = "parse_sort_response") =>
        /\ ~result.ok <=> cmd.arg.status \in {"NO", "BAD"}
        /\ cmd.arg.status = "OK" => result.ok /\ result.uids = Concat(cmd.arg.lines)

(***************************************************************************)
(* epoch_to_date and the relative dates counted in days and weeks.         *)
(***************************************************************************)
\* The number of the day t in the proleptic Gregorian calendar (its Julian
\* day number), counted without epoch_to_date.
DayNumber(t) ==
    LET a == (14 - t.month) \div 12
        y == t.year + 4800 - a
        m == t.month + 12 * a - 3
    IN t.day + (153 * m + 2) \div 5 + 365 * y + y \div 4 - y \div 100 + y \div 400 - 32045

\* The calendar day n days before the day `today`.
DaysBefore(today, n) ==
    LET years == (today.year - n \div 365 - 1)..(today.year - n \div 366)
    IN CHOOSE t \in [year : years, month : 1..12, day : 1..31] :
          /\ t.day <= LastDayOf(t.year, t.month)
          /\ DayNumber(t) = DayNumber(today) - n

\* C35: epoch_to_date gives the proleptic Gregorian date of the UTC day that
\* holds the instant, also before 1970, so that 'Nd' and 'Nw' resolve to the
\* date exactly N and 7 N days before the day the clock shows.
C35_DaysAndWeeksExact ==
    (pc = "return" /\ cmd.name = "resolve_relative_date" /\ IsCountOf(cmd.arg, {"d", "w"})) =>
        LET days == IF UnitOf(cmd.arg) = "d" THEN CountOf(cmd.arg) ELSE 7 * CountOf(cmd.arg)
            answer == result.val
        IN /\ IsSome(answer) /\ Unwrap(answer).ok
           /\ Unwrap(answer).val = DateText(DaysBefore(result.now, days))

(***************************************************************************)
(* The selected mailbox when a mutating command is sent.                   *)
(***************************************************************************)
\* The position of the last SELECT before position i of the log, 0 if none.
LastSelectBefore(i) ==
    LET at == {j \in 1..(i - 1) : log[j].cmd = "SELECT"}
    IN IF at = {} THEN 0 ELSE CHOOSE j \in at : \A k \in at : k <= j

\* The UIDs the search was given by the mailbox mb: those of the records of
\* the UID FETCH answers received while mb was selected.
FetchedFrom(mb) ==
    UNION {SeqToSet(log[j].data) :
              j \in {k \in 1..Len(log) : /\ log[k].cmd = "UID FETCH" /\ log[k].ok
                                         /\ LastSelectBefore(k) > 0
                                         /\ log[LastSelectBefore(k)].ok
                                         /\ log[LastSelectBefore(k)].mailbox = mb}}

\* C36: every UID MOVE, UID COPY and UID STORE of a chunk is sent while the
\* selected mailbox is the one that owns the chunk's UIDs: the last SELECT
\* before it succeeded and named the mailbox the UIDs were found in, and no
\* mutating command follows a failed SELECT of the grouping loop.
C36_SentInOwningMailbox ==
    \A i \in 1..Len(log) :
        log[i].cmd \in {"UID MOVE", "UID COPY", "UID STORE"} =>
            LET s == LastSelectBefore(i)
            IN /\ s > 0
               /\ log[s].ok
               /\ UidsOf(log[i].set) \subseteq FetchedFrom(log[s].mailbox)
               /\ \A k \in 1..(i - 1) :
                     (log[k].cmd = "SELECT" /\ ~log[k].ok) =>
                         \E l \in (k + 1)..(i - 1) : log[l].cmd = "LIST"

(***************************************************************************)
(* What the fallback move removes from the source mailbox.                 *)
(***************************************************************************)
\* C37: the EXPUNGE that completes a fallback move of the UID set U removes
\* from the source mailbox only messages whose UID is in U: every other
\* message of the mailbox, flagged \Deleted before or not, is still there.
C37_OnlyTheSetRemoved ==
    [][(/\ pc = "mv_expunge"
        /\ Len(log') = Len(log) + 1
        /\ log'[Len(log')].cmd = "EXPUNGE"
        /\ log'[Len(log')].ok) =>
            \A m \in mbox[selected] :
                m.uid \notin UidsOf(Head(move.chunks)) =>
                    \E n \in mbox'[selected] : n.uid = m.uid /\ n.id = m.id]_vars

(***************************************************************************)
(* The rows search returns: their UIDs and their mailboxes.                *)
(***************************************************************************)
\* The mailbox a returned row belongs to: its label, or the one mailbox searched.
OwnerOf(row) ==
    IF IsSome(row.folder) THEN Unwrap(row.folder) ELSE sanitize(cmd.criteria.folder)

DateNamed(text) ==
    LET p == DashPieces(text, <<>>)
    IN [day |-> DigitsValue(p[1], 0),
        month |-> CHOOSE k \in 1..12 : MONTH_ABBRS[k] = p[2],
        year |-> IF Len(p) = 4 THEN 0 - DigitsValue(p[4], 0) ELSE DigitsValue(p[3], 0)]

\* C39: every date parse_date returns for a SINCE or BEFORE clause is an
\* existing calendar date: its day is at least 1 and at most the number of
\* days of its month in its year.
C39_ExistingCalendarDate ==
    (pc = "return" /\ cmd.name = "parse_date" /\ result.ok) =>
        LET t == DateNamed(result.val)
        IN t.day \in 1..LastDayOf(t.year, t.month)

(***************************************************************************)
(* LOGOUT at the end of main.                                              *)
(***************************************************************************)
\* The LOGOUT commands sent on the session.
Logouts == SelectSeq(log, LAMBDA e : e.cmd = "LOGOUT")

\* C40: after a successful connect main sends LOGOUT exactly once before it
\* returns, whether the command succeeded or failed, for every command; and
\* never while the command is still running.
C40_LogoutExactlyOnce ==
    /\ pc = "done" => Len(Logouts) = 1
    /\ pc # "done" => Len(Logouts) = 0

====
